---- MODULE Spec2Model ----
(***************************************************************************)
(* State-machine model of the peer lifecycle and provisioning engine of    *)
(* the WireGuard / VLESS Telegram bot (src/bot).                           *)
(*                                                                         *)
(* Every step of a handler or job is one store statement (one function of  *)
(* storage.py) or one adapter call (one public function of wg.py or        *)
(* vless.py), together with the pure computation that follows it.          *)
(*                                                                         *)
(* Two schedulings of the same steps are specified:                        *)
(*   Spec      the deployed process: one asyncio event loop, updates       *)
(*             handled one at a time (ApplicationBuilder().build(), no     *)
(*             concurrent_updates), so a handler or job runs without       *)
(*             interruption between two of its `await`s;                   *)
(*   SpecConc  every step of every call may interleave with the steps of   *)
(*             the other calls (independent callers on the same store),    *)
(*             under a protocol policy that stays as it was at the start.  *)
(*                                                                         *)
(* Scaling: the clock counts abstract seconds with DaySeconds seconds per  *)
(* day (86400 in the source) and is read a day at a time; day counts       *)
(* (ttl_days, promo days) are drawn from small sets.  Creation timestamps  *)
(* (created_at) and the Xray backup file are not modelled: no operation    *)
(* of the engine reads them.  The conversation flag waiting_for_promo is   *)
(* not modelled either: a redemption starts at the text of the code.       *)
(***************************************************************************)
EXTENDS Integers, Sequences, FiniteSets, TLC

(* ------------------------------- bounds -------------------------------- *)
Ids == {1, 2}                  \* external identities (telegram ids)
Names == {"Alice"}             \* display names a caller may pass
Tasks == {1, 2}                \* handler invocations that may be in flight
MaxTime == 3                   \* the clock stops here
MaxCred == 2                   \* keypairs / uuids generated at most
MaxPromo == 1                  \* promo codes stored at most
DaySeconds == 2                \* seconds per day (86400 in the source)
MaxCredits == 2                \* the history of redemptions counts up to here
MaxExpiry == MaxTime + DaySeconds   \* a redemption may extend an expiry up to here
TtlDays == {1}                 \* ttl_days a get-access request may carry
PromoDays == {1}               \* day counts offered by the admin keyboard
Prefixes == {<<"A", "B">>}     \* two-character prefixes random.choice may give

(* ---------------------------- program constants ------------------------ *)
NULL == -1                     \* SQL NULL / Python None in an integer column
FIRST_CLIENT_IP == 10
SUBNET_PREFIX == "10.8.0."
ADMIN_TG_ID == 1
WORDS == <<"JULY", "AUGU", "SEPT", "OCTO">>

DefaultPolicy ==
    [wireguard_enabled |-> TRUE, vless_enabled |-> FALSE,
     primary_protocol |-> "wireguard"]

(* ------------------------------ variables ------------------------------ *)
VARIABLES
    mode,         \* "seq" (Spec) or "conc" (SpecConc): the scheduling
    now,          \* time.time()
    phase,        \* "starting": restore_peers_on_startup not finished; "running"
    settings,     \* settings table: <<>> or <<policy>> (key 'protocol_policy')
    peers,        \* peers table, in id order
    vless_peers,  \* vless_peers table, in rowid order
    promo_codes,  \* promo_codes table (set of rows)
    wgLive,       \* runtime peer table of the WireGuard interface
    xray,         \* Xray config file: the clients of the Reality inbound
    nextCred,     \* next keypair / uuid the generators give
    tasks,        \* handler invocations
    sw,           \* the restore pass / the expiry job
    ret,          \* <<>> or <<r>>: the handler call that returned in the last step
    prevOk,       \* <<>> or <<r>>: the successful provisioning call just before
    credited      \* per code: how many redemptions of it wrote to a peer (history)

vars == <<mode, now, phase, settings, peers, vless_peers, promo_codes, wgLive,
          xray, nextCred, tasks, sw, ret, prevOk, credited>>

(* ------------------------------ storage.py ----------------------------- *)
\* SELECT * FROM <table> WHERE telegram_id = ? ; fetchone() as <<>> or <<row>>
RowsOf(rows, tid) == SelectSeq(rows, LAMBDA r: r.telegram_id = tid)

get_peer_by_telegram_id(rows, tid) ==
    IF RowsOf(rows, tid) = <<>> THEN <<>> ELSE <<RowsOf(rows, tid)[1]>>

get_vless_peer_by_telegram_id(rows, tid) ==
    IF RowsOf(rows, tid) = <<>> THEN <<>> ELSE <<RowsOf(rows, tid)[1]>>

\* AUTOINCREMENT: one more than the largest id ever used (rows are never deleted
\* from the peers table)
NextRowId(rows) ==
    IF rows = <<>> THEN 1
    ELSE 1 + (CHOOSE m \in {rows[i].id : i \in DOMAIN rows} :
                 \A i \in DOMAIN rows : rows[i].id <= m)

\* The schema without UNIQUE on ip
PeerUniqueViolated_NoIp(rows, tid, pub, ip) ==
    \E i \in DOMAIN rows :
        \/ rows[i].telegram_id = tid
        \/ rows[i].public_key = pub

\* The UNIQUE constraints of the peers table (telegram_id, public_key, ip)
PeerUniqueViolated(rows, tid, pub, ip) ==
    \E i \in DOMAIN rows :
        \/ rows[i].telegram_id = tid
        \/ rows[i].public_key = pub
        \/ rows[i].ip = ip

\* Mutant: the schema without UNIQUE on telegram_id
create_peer_NoUniqueId(rows, tid, name, priv, pub, ip, exp) ==
    IF \E i \in DOMAIN rows : rows[i].public_key = pub \/ rows[i].ip = ip
    THEN [err |-> TRUE, rows |-> rows]
    ELSE [err |-> FALSE,
          rows |-> Append(rows, [id |-> NextRowId(rows), telegram_id |-> tid,
                                 name |-> name, private_key |-> priv,
                                 public_key |-> pub, ip |-> ip,
                                 expires_at |-> exp, enabled |-> TRUE])]

\* Mutant: INSERT OR REPLACE instead of INSERT
create_peer_OrReplace(rows, tid, name, priv, pub, ip, exp) ==
    LET kept == SelectSeq(rows, LAMBDA r: /\ r.telegram_id # tid
                                          /\ r.public_key # pub
                                          /\ r.ip # ip)
    IN [err |-> FALSE,
        rows |-> Append(kept, [id |-> NextRowId(rows), telegram_id |-> tid,
                               name |-> name, private_key |-> priv,
                               public_key |-> pub, ip |-> ip,
                               expires_at |-> exp, enabled |-> TRUE])]

\* INSERT INTO peers ...: err is sqlite3.IntegrityError
create_peer(rows, tid, name, priv, pub, ip, exp) ==
    IF PeerUniqueViolated(rows, tid, pub, ip)
    THEN [err |-> TRUE, rows |-> rows]
    ELSE [err |-> FALSE,
          rows |-> Append(rows, [id |-> NextRowId(rows), telegram_id |-> tid,
                                 name |-> name, private_key |-> priv,
                                 public_key |-> pub, ip |-> ip,
                                 expires_at |-> exp, enabled |-> TRUE])]

\* INSERT INTO vless_peers ...: UNIQUE telegram_id, UNIQUE uuid
create_vless_peer(rows, tid, name, uuid, exp) ==
    IF \E i \in DOMAIN rows : rows[i].telegram_id = tid \/ rows[i].uuid = uuid
    THEN [err |-> TRUE, rows |-> rows]
    ELSE [err |-> FALSE,
          rows |-> Append(rows, [telegram_id |-> tid, name |-> name,
                                 uuid |-> uuid, expires_at |-> exp,
                                 enabled |-> TRUE])]

\* UPDATE <table> SET expires_at = ? WHERE telegram_id = ?
update_expiry(rows, tid, exp) ==
    [i \in DOMAIN rows |->
        IF rows[i].telegram_id = tid THEN [rows[i] EXCEPT !.expires_at = exp]
        ELSE rows[i]]

\* UPDATE <table> SET enabled = ? WHERE telegram_id = ?
set_enabled(rows, tid, en) ==
    [i \in DOMAIN rows |->
        IF rows[i].telegram_id = tid THEN [rows[i] EXCEPT !.enabled = en]
        ELSE rows[i]]

set_vless_enabled(rows, tid, en) ==
    [i \in DOMAIN rows |->
        IF rows[i].telegram_id = tid THEN [rows[i] EXCEPT !.enabled = en]
        ELSE rows[i]]

\* DELETE FROM vless_peers WHERE telegram_id = ?
delete_vless_peer(rows, tid) == SelectSeq(rows, LAMBDA r: r.telegram_id # tid)

\* Mutant: the restore query without its enabled = 1 condition
get_peers_for_restore_AnyFlag(rows, ts) ==
    SelectSeq(rows, LAMBDA r: r.expires_at = NULL \/ r.expires_at > ts)

\* enabled = 1 AND (expires_at IS NULL OR expires_at > now_ts)
get_peers_for_restore(rows, ts) ==
    SelectSeq(rows, LAMBDA r: r.enabled /\ (r.expires_at = NULL \/ r.expires_at > ts))

\* Mutant: the relay restore query without its expires_at IS NULL alternative
get_vless_peers_for_restore_Dated(rows, ts) ==
    SelectSeq(rows, LAMBDA r: r.enabled /\ r.expires_at # NULL /\ r.expires_at > ts)

get_vless_peers_for_restore(rows, ts) ==
    SelectSeq(rows, LAMBDA r: r.enabled /\ (r.expires_at = NULL \/ r.expires_at > ts))

\* A variant that passes over the peers running out at this very second
get_expired_peers_Strict(rows, ts) ==
    SelectSeq(rows, LAMBDA r: r.enabled /\ r.expires_at # NULL /\ r.expires_at < ts)

\* enabled = 1 AND expires_at IS NOT NULL AND expires_at <= now_ts
get_expired_peers(rows, ts) ==
    SelectSeq(rows, LAMBDA r: r.enabled /\ r.expires_at # NULL /\ r.expires_at <= ts)

get_expired_vless_peers(rows, ts) ==
    SelectSeq(rows, LAMBDA r: r.enabled /\ r.expires_at # NULL /\ r.expires_at <= ts)

\* An address "10.8.0.N" is the pair <<prefix, N>>
FormatIp(prefix, octet) == <<prefix, octet>>
LastOctet(ip) == ip[2]

\* An allocator without the reserved range: the first address is 10.8.0.1
get_next_ip_NoOffset(rows) ==
    IF rows = <<>> THEN <<SUBNET_PREFIX, 1>>
    ELSE LET last == CHOOSE i \in DOMAIN rows :
                         \A j \in DOMAIN rows : rows[j].id <= rows[i].id
         IN <<SUBNET_PREFIX, rows[last].ip[2] + 1>>

\* An allocator that does not read the table
get_next_ip_First(rows) == <<SUBNET_PREFIX, FIRST_CLIENT_IP>>

\* SELECT ip FROM peers ORDER BY id DESC LIMIT 1, then last octet + 1
get_next_ip(rows) ==
    IF rows = <<>> THEN FormatIp(SUBNET_PREFIX, FIRST_CLIENT_IP)
    ELSE LET last == CHOOSE i \in DOMAIN rows :
                         \A j \in DOMAIN rows : rows[j].id <= rows[i].id
         IN FormatIp(SUBNET_PREFIX, LastOctet(rows[last].ip) + 1)

get_protocol_policy == IF settings = <<>> THEN DefaultPolicy ELSE settings[1]

\* A variant that validates nothing
PolicyInvalid_Never(wg, vl, primary) == FALSE

\* A variant that takes any text for the name of the primary protocol
PolicyInvalid_AnyName(wg, vl, primary) ==
    \/ ~wg /\ ~vl
    \/ primary = "wireguard" /\ ~wg
    \/ primary = "vless" /\ ~vl

\* The validation of set_protocol_policy: TRUE when it raises ValueError
PolicyInvalid(wg, vl, primary) ==
    \/ ~wg /\ ~vl
    \/ primary \notin {"wireguard", "vless"}
    \/ primary = "wireguard" /\ ~wg
    \/ primary = "vless" /\ ~vl

\* INSERT OR REPLACE INTO settings ... after the validation passed
set_protocol_policy(wg, vl, primary) ==
    <<[wireguard_enabled |-> wg, vless_enabled |-> vl, primary_protocol |-> primary]>>

get_promo_code(code) == {p \in promo_codes : p.code = code}

\* UPDATE promo_codes SET activated_at = ?, activated_by = ? WHERE code = ?
activate_promo_code(rows, code, by, ts) ==
    {IF p.code = code THEN [p EXCEPT !.activated_at = ts, !.activated_by = by]
     ELSE p : p \in rows}

(* --------------------------------- wg.py ------------------------------- *)
\* `wg pubkey`: the public key is a function of the private key
PubKey(priv) == <<"pub", priv>>

\* wg set <if> peer <pk> allowed-ips <ip>/32 : the peer is added, or its
\* allowed-ips replaced
wg_enable_peer(live, pub, ip) ==
    {e \in live : e.public_key # pub} \cup {[public_key |-> pub, allowed_ip |-> ip]}

\* wg set <if> peer <pk> remove
wg_disable_peer(live, pub) == {e \in live : e.public_key # pub}

\* The text of the client config is determined by the private key and the
\* address (the other fields come from the environment)
generate_client_config(priv, ip) == <<"[Interface]", priv, ip, "[Peer]">>

\* Outcomes of one `wg` invocation through _run: "ok", "WireGuardError"
\* (non-zero exit, CalledProcessError) or "OSError" (the tool cannot be started:
\* subprocess.run raises FileNotFoundError, which _run does not catch)
WgOutcomes == {"ok", "WireGuardError", "OSError"}

(* -------------------------------- vless.py ----------------------------- *)
ClientIds(cfg) == {cfg.clients[i].id : i \in DOMAIN cfg.clients}

\* Outcomes of enable_client / disable_client:
\*   "ok"         returned normally
\*   "VLESSError" raised before the file was written (config missing or not
\*                JSON, inbound not found, write failed)
\*   "reload"     VLESSError raised by _reload_xray, after the file was written
\*   "OSError"    open() failed with an error _load_config does not catch
\*                (PermissionError, UnicodeDecodeError): not a VLESSError
XrayOutcomes == {"ok", "VLESSError", "reload", "OSError"}

\* The file after enable_client(uuid, email) under outcome o
enable_client(cfg, uuid, email, o) ==
    IF o \in {"VLESSError", "OSError"} \/ uuid \in ClientIds(cfg) THEN cfg
    ELSE [clients |-> Append(cfg.clients,
                             [id |-> uuid, flow |-> "xtls-rprx-vision",
                              email |-> email])]

\* enable_client returns without touching anything when the id is present
EnableRaises(cfg, uuid, o) ==
    /\ o # "ok"
    /\ ~(o = "reload" /\ uuid \in ClientIds(cfg))

\* The file after disable_client(uuid) under outcome o
disable_client(cfg, uuid, o) ==
    IF o \in {"VLESSError", "OSError"} THEN cfg
    ELSE [clients |-> SelectSeq(cfg.clients, LAMBDA c: c.id # uuid)]

generate_vless_link(uuid, user_name) == <<"vless://", uuid, user_name>>


(* ------------------------------ promo codes ---------------------------- *)
\* A code text is a sequence of one-character strings
UpperLetters == {"A","B","C","D","E","F","G","H","I","J","K","L","M",
                 "N","O","P","Q","R","S","T","U","V","W","X","Y","Z"}
Digits == {"0","1","2","3","4","5","6","7","8","9"}
LowerSeq == <<"a","b","c","d","e","f","g","h","i","j","k","l","m",
              "n","o","p","q","r","s","t","u","v","w","x","y","z">>
UpperSeq == <<"A","B","C","D","E","F","G","H","I","J","K","L","M",
              "N","O","P","Q","R","S","T","U","V","W","X","Y","Z">>
DigitSeq == <<"0","1","2","3","4","5","6","7","8","9">>

\* str.upper()
UpperChar(c) ==
    IF \E i \in DOMAIN LowerSeq : LowerSeq[i] = c
    THEN UpperSeq[CHOOSE i \in DOMAIN LowerSeq : LowerSeq[i] = c]
    ELSE c
Upper(text) == [i \in DOMAIN text |-> UpperChar(text[i])]

\* re.match(r'^[A-Z0-9]{2}-[A-Z]{4}-\d+D$', code)
MatchesFormat(code) ==
    /\ Len(code) >= 10
    /\ code[1] \in UpperLetters \cup Digits
    /\ code[2] \in UpperLetters \cup Digits
    /\ code[3] = "-"
    /\ \A i \in 4..7 : code[i] \in UpperLetters
    /\ code[8] = "-"
    /\ \A i \in 9..(Len(code) - 1) : code[i] \in Digits
    /\ code[Len(code)] = "D"

DigitVal(c) == (CHOOSE i \in DOMAIN DigitSeq : DigitSeq[i] = c) - 1

RECURSIVE ParseInt(_)
ParseInt(ds) ==
    IF ds = <<>> THEN 0
    ELSE 10 * ParseInt(SubSeq(ds, 1, Len(ds) - 1)) + DigitVal(ds[Len(ds)])

\* int(code.split('-')[-1].rstrip('D')) of a code that matched the format
CodeDays(code) == ParseInt(SubSeq(code, 9, Len(code) - 1))

RECURSIVE FormatNat(_)
FormatNat(n) ==
    IF n < 10 THEN <<DigitSeq[n + 1]>>
    ELSE FormatNat(n \div 10) \o <<DigitSeq[(n % 10) + 1]>>

\* f"{days}"
FormatInt(n) == IF n < 0 THEN <<"-">> \o FormatNat(-n) ELSE FormatNat(n)

Chars(word) ==
    CASE word = "JULY" -> <<"J","U","L","Y">>
      [] word = "AUGU" -> <<"A","U","G","U">>
      [] word = "SEPT" -> <<"S","E","P","T">>
      [] word = "OCTO" -> <<"O","C","T","O">>

\* A variant that leaves out the unit letter
generate_promo_NoUnit(days, prefix, ts) ==
    prefix \o <<"-">> \o Chars(WORDS[(ts % Len(WORDS)) + 1]) \o <<"-">>
           \o FormatInt(days)

\* generate_promo(days) with the random prefix and the clock given
generate_promo(days, prefix, ts) ==
    prefix \o <<"-">> \o Chars(WORDS[(ts % Len(WORDS)) + 1]) \o <<"-">>
           \o FormatInt(days) \o <<"D">>

\* `if x:` on an integer column: NULL and 0 are falsy
Truthy(x) == x # NULL /\ x # 0

(* -------------------------------- processes ---------------------------- *)
IdleTask ==
    [op |-> "idle", pc |-> "idle", id |-> 0, name |-> "", ttl |-> NULL,
     proto |-> "", text |-> <<>>, code |-> <<>>, days |-> 0, cred |-> 0,
     ip |-> <<>>, exp |-> NULL, row |-> <<>>, eff |-> {}, retry |-> <<>>,
     ts |-> 0]

\* swept: the peers whose adapter call returned normally in this run of the
\* job or of the restore pass
IdleJob == [pc |-> "idle", ts |-> 0, vl |-> FALSE, todo |-> <<>>, swept |-> {}]

\* A variant that takes every caller for the admin
is_admin_Anyone(user) == TRUE

is_admin(user) == ADMIN_TG_ID # NULL /\ user = ADMIN_TG_ID

\* A handler is between two awaits: the event loop may run something else
TaskAtYield(u) ==
    \/ tasks[u].pc = "idle"
    \/ tasks[u].op = "vpn" /\ tasks[u].pc = "lookup"
    \/ tasks[u].pc = "activate"

AllIdle == \A u \in Tasks : tasks[u].pc = "idle"

\* Scheduling: who may take a step
MayStep(t) ==
    \/ mode = "conc"
    \/ /\ sw.pc = "idle"
       /\ \A u \in Tasks \ {t} : TaskAtYield(u)

HandlerTurn ==
    /\ phase = "running"
    /\ \/ mode = "conc"
       \/ AllIdle /\ sw.pc = "idle"

MayStart(t) ==
    /\ HandlerTurn
    /\ tasks[t].pc = "idle"
    /\ \A u \in Tasks : u < t => tasks[u].pc # "idle"
    /\ nextCred + Cardinality({u \in Tasks : tasks[u].pc # "idle"}) <= MaxCred

JobTurn == mode = "conc" \/ \A u \in Tasks : TaskAtYield(u)

Init0 ==
    /\ now = 1
    /\ phase = "starting"
    /\ settings = <<>>
    /\ peers = <<>>
    /\ vless_peers = <<>>
    /\ promo_codes = {}
    /\ wgLive = {}
    /\ xray = [clients |-> <<>>]
    /\ nextCred = 1
    /\ tasks = [t \in Tasks |-> IdleTask]
    /\ sw = IdleJob
    /\ ret = <<>>
    /\ prevOk = <<>>
    /\ credited = <<>>

Init == mode = "seq" /\ Init0

\* The handler call of task t returns (or dies with an uncaught exception)
Return(t, tk, res, desc) ==
    /\ tasks' = [tasks EXCEPT ![t] = IdleTask]
    /\ ret' = <<[op |-> tk.op, proto |-> tk.proto, id |-> tk.id, name |-> tk.name,
                 ttl |-> tk.ttl, text |-> tk.text, code |-> tk.code, res |-> res,
                 desc |-> desc, eff |-> tk.eff, prev |-> prevOk, ip |-> tk.ip]>>
    /\ prevOk' = IF tk.op = "vpn" /\ res = "ok"
                 THEN <<[proto |-> tk.proto, id |-> tk.id, name |-> tk.name,
                         ttl |-> tk.ttl, desc |-> desc]>>
                 ELSE <<>>

\* get_or_create_* returns: to the /vpn handler, which ends, or to
\* handle_promo_code, which goes on to activate the code only after success
ProvReturn(t, tk, res, desc) ==
    IF tk.op = "redeem" /\ res = "ok"
    THEN /\ tasks' = [tasks EXCEPT ![t] = [tk EXCEPT !.pc = "activate"]]
         /\ ret' = <<>>
         /\ prevOk' = <<>>
    ELSE Return(t, tk, res, desc)

\* History: one more redemption of `code` has created or extended a peer
\* (counted up to MaxCredits)
Credit(code) ==
    [c \in DOMAIN credited \cup {code} |->
        IF c # code THEN credited[c]
        ELSE IF code \notin DOMAIN credited THEN 1
        ELSE IF credited[code] < MaxCredits THEN credited[code] + 1
        ELSE credited[code]]

\* int(time.time()) + ttl_days * 86400, or None
ExpiryFromTtl(ttl, ts) == IF ttl = NULL THEN NULL ELSE ts + ttl * DaySeconds


(* ---------------------- /vpn and the get-access button ----------------- *)
\* Only the steps that differ between tasks are written per action; the rest
\* of the state is left alone.
Others(t) == UNCHANGED <<mode, now, phase, settings, promo_codes, sw, credited>>

\* The call that starts right after a call of the same identity was ended by
\* sqlite3.IntegrityError is a retry of it: <<the address that call held>>
RetryOf(id) ==
    IF /\ ret # <<>>
       /\ ret[1].op = "vpn"
       /\ ret[1].id = id
       /\ ret[1].res = "IntegrityError"
    THEN <<ret[1].ip>>
    ELSE <<>>

\* A variant that issues WireGuard whatever the policy says
VpnStart_AlwaysWireGuard(t, id, name, ttl) ==
    /\ MayStart(t)
    /\ tasks' = [tasks EXCEPT ![t] =
                    [IdleTask EXCEPT !.op = "vpn", !.pc = "lookup", !.id = id,
                                     !.name = name, !.ttl = ttl,
                                     !.retry = RetryOf(id),
                                     !.proto = "wireguard"]]
    /\ ret' = <<>>
    /\ UNCHANGED <<prevOk, peers, vless_peers, wgLive, xray, nextCred>>
    /\ UNCHANGED <<mode, now, phase, settings, promo_codes, sw, credited>>

\* cmd_vpn / on_get_access up to the call of get_or_create_*: the policy is
\* read and the primary protocol chosen
VpnStart(t, id, name, ttl) ==
    /\ MayStart(t)
    /\ tasks' = [tasks EXCEPT ![t] =
                    [IdleTask EXCEPT !.op = "vpn", !.pc = "lookup", !.id = id,
                                     !.name = name, !.ttl = ttl,
                                     !.retry = RetryOf(id),
                                     !.proto = get_protocol_policy.primary_protocol]]
    /\ ret' = <<>>
    /\ UNCHANGED <<prevOk, peers, vless_peers, wgLive, xray, nextCred>>
    /\ Others(t)

\* The descriptor rendered from a stored row
Descriptor(proto, row, name) ==
    IF proto = "wireguard" THEN generate_client_config(row.private_key, row.ip)
    ELSE generate_vless_link(row.uuid, name)

\* Mutant: the branch for an existing row activates the peer once more
ExistingPeer_Reactivate(t, tk, row) ==
    /\ IF row.enabled
       THEN ProvReturn(t, [tk EXCEPT !.eff = @ \cup {"daemon"}], "ok",
                       Descriptor(tk.proto, row, tk.name))
       ELSE ProvReturn(t, tk, "disabled", <<>>)
    /\ IF tk.proto = "wireguard"
       THEN /\ wgLive' = wg_enable_peer(wgLive, row.public_key, row.ip)
            /\ UNCHANGED xray
       ELSE /\ xray' = enable_client(xray, row.uuid, <<"tg_", tk.id>>, "ok")
            /\ UNCHANGED wgLive
    /\ UNCHANGED <<peers, vless_peers, nextCred>>

\* Mutant: a disabled peer is re-enabled silently
ExistingPeer_SilentEnable(t, tk, row) ==
    /\ ProvReturn(t, tk, "ok", Descriptor(tk.proto, row, tk.name))
    /\ IF tk.proto = "wireguard"
       THEN /\ peers' = set_enabled(peers, tk.id, TRUE)
            /\ wgLive' = wg_enable_peer(wgLive, row.public_key, row.ip)
            /\ UNCHANGED <<vless_peers, xray>>
       ELSE /\ vless_peers' = set_vless_enabled(vless_peers, tk.id, TRUE)
            /\ xray' = enable_client(xray, row.uuid, <<"tg_", tk.id>>, "ok")
            /\ UNCHANGED <<peers, wgLive>>
    /\ UNCHANGED nextCred

\* get_or_create_*: the branch for an identity that has a row
ExistingPeer(t, tk, row) ==
    /\ IF row.enabled
       THEN ProvReturn(t, tk, "ok", Descriptor(tk.proto, row, tk.name))
       ELSE ProvReturn(t, tk, "disabled", <<>>)
    /\ UNCHANGED <<peers, vless_peers, wgLive, xray, nextCred>>

\* get_or_create_*: the lookup of the identity's row.  A relay identity without
\* a row gets its uuid (uuid4) and its expiry here.
Lookup(t) ==
    LET tk == tasks[t]
        found == IF tk.proto = "wireguard"
                 THEN get_peer_by_telegram_id(peers, tk.id)
                 ELSE get_vless_peer_by_telegram_id(vless_peers, tk.id)
    IN /\ tk.pc = "lookup"
       /\ MayStep(t)
       /\ IF found # <<>> THEN ExistingPeer(t, tk, found[1])
          ELSE /\ IF tk.proto = "wireguard"
                  THEN /\ tasks' = [tasks EXCEPT ![t].pc = "keygen"]
                       /\ UNCHANGED nextCred
                  ELSE /\ nextCred <= MaxCred
                       /\ tasks' = [tasks EXCEPT ![t] =
                                       [tk EXCEPT !.pc = "insert", !.cred = nextCred,
                                                  !.exp = ExpiryFromTtl(tk.ttl, now),
                                                  !.eff = tk.eff \cup {"alloc"}]]
                       /\ nextCred' = nextCred + 1
               /\ ret' = <<>>
               /\ UNCHANGED <<prevOk, peers, vless_peers, wgLive, xray>>
       /\ Others(t)

\* provision.py lines 43-48: generate_keypair, get_next_ip, the expiry
Keygen(t) ==
    LET tk == tasks[t]
    IN /\ tk.pc = "keygen"
       /\ MayStep(t)
       /\ \E o \in WgOutcomes :
            IF o = "ok"
            THEN /\ nextCred <= MaxCred
                 /\ tasks' = [tasks EXCEPT ![t] =
                                 [tk EXCEPT !.pc = "insert", !.cred = nextCred,
                                            !.ip = get_next_ip(peers),
                                            !.exp = ExpiryFromTtl(tk.ttl, now),
                                            !.eff = tk.eff \cup {"alloc"}]]
                 /\ nextCred' = nextCred + 1
                 /\ ret' = <<>>
                 /\ UNCHANGED prevOk
            ELSE /\ ProvReturn(t, tk, o, <<>>)
                 /\ UNCHANGED nextCred
       /\ UNCHANGED <<peers, vless_peers, wgLive, xray>>
       /\ Others(t)

\* create_peer / create_vless_peer; an IntegrityError is caught by nobody
Insert(t) ==
    LET tk == tasks[t]
        r == IF tk.proto = "wireguard"
             THEN create_peer(peers, tk.id, tk.name, tk.cred, PubKey(tk.cred),
                              tk.ip, tk.exp)
             ELSE create_vless_peer(vless_peers, tk.id, tk.name, tk.cred, tk.exp)
    IN /\ tk.pc = "insert"
       /\ MayStep(t)
       /\ IF r.err
          THEN /\ ProvReturn(t, tk, "IntegrityError", <<>>)
               /\ UNCHANGED <<peers, vless_peers>>
          ELSE /\ tasks' = [tasks EXCEPT ![t] =
                               [tk EXCEPT !.pc = "enable",
                                          !.eff = tk.eff \cup {"insert"}]]
               /\ IF tk.proto = "wireguard"
                  THEN peers' = r.rows /\ UNCHANGED vless_peers
                  ELSE vless_peers' = r.rows /\ UNCHANGED peers
               /\ ret' = <<>>
               /\ UNCHANGED prevOk
       /\ credited' = IF tk.op = "redeem" /\ ~r.err THEN Credit(tk.code) ELSE credited
       /\ UNCHANGED <<wgLive, xray, nextCred>>
       /\ UNCHANGED <<mode, now, phase, settings, promo_codes, sw>>

\* provision.py lines 60-67: wg.enable_peer is not guarded by any try, so
\* whatever it raises leaves get_or_create_peer_and_config at once
EnableWg(t) ==
    LET tk == [tasks[t] EXCEPT !.eff = @ \cup {"daemon"}]
    IN /\ tk.pc = "enable"
       /\ tk.proto = "wireguard"
       /\ MayStep(t)
       /\ \E o \in WgOutcomes :
            IF o = "ok"
            THEN /\ wgLive' = wg_enable_peer(wgLive, PubKey(tk.cred), tk.ip)
                 /\ ProvReturn(t, tk, "ok", generate_client_config(tk.cred, tk.ip))
            ELSE /\ UNCHANGED wgLive
                 /\ ProvReturn(t, tk, o, <<>>)
       /\ UNCHANGED <<peers, vless_peers, xray, nextCred>>
       /\ Others(t)

\* vless_provision.py lines 69-82: only a VLESSError reaches the rollback
EnableVless(t) ==
    LET tk == [tasks[t] EXCEPT !.eff = @ \cup {"daemon"}]
    IN /\ tk.pc = "enable"
       /\ tk.proto = "vless"
       /\ MayStep(t)
       /\ \E o \in XrayOutcomes :
            /\ xray' = enable_client(xray, tk.cred, <<"tg_", tk.id>>, o)
            /\ IF ~EnableRaises(xray, tk.cred, o)
               THEN ProvReturn(t, tk, "ok", generate_vless_link(tk.cred, tk.name))
               ELSE IF o = "OSError"
               THEN ProvReturn(t, tk, "OSError", <<>>)
               ELSE /\ tasks' = [tasks EXCEPT ![t] = [tk EXCEPT !.pc = "rollback"]]
                    /\ ret' = <<>>
                    /\ UNCHANGED prevOk
       /\ UNCHANGED <<peers, vless_peers, wgLive, nextCred>>
       /\ Others(t)

\* vless_provision.py lines 73-76: delete the row, raise VLESSProvisionError
Rollback(t) ==
    LET tk == tasks[t]
    IN /\ tk.pc = "rollback"
       /\ MayStep(t)
       /\ vless_peers' = delete_vless_peer(vless_peers, tk.id)
       /\ ProvReturn(t, tk, "enable_failed", <<>>)
       /\ UNCHANGED <<peers, wgLive, xray, nextCred>>
       /\ Others(t)


(* ------------------------------ promo codes ---------------------------- *)
\* on_promo_days: generate_promo(days).upper(), then save_promo_code (the
\* INSERT fails with an IntegrityError when the code is already stored)
OnPromoDays(user, days, prefix) ==
    LET code == Upper(generate_promo(days, prefix, now))
    IN /\ HandlerTurn
       /\ Cardinality(promo_codes) < MaxPromo
       /\ promo_codes' =
            IF \E p \in promo_codes : p.code = code THEN promo_codes
            ELSE promo_codes \cup {[code |-> code, days |-> days,
                                    created_by |-> user, activated_at |-> NULL,
                                    activated_by |-> NULL]}
       /\ ret' = <<>>
       /\ prevOk' = <<>>
       /\ UNCHANGED <<mode, now, phase, settings, peers, vless_peers, wgLive,
                      xray, nextCred, tasks, sw, credited>>

\* What a user may type: a stored code, a stored code in lower case, a
\* well-formed code that is not stored, and a malformed text
LowerOf(text) ==
    [i \in DOMAIN text |->
        IF \E k \in DOMAIN UpperSeq : UpperSeq[k] = text[i]
        THEN LowerSeq[CHOOSE k \in DOMAIN UpperSeq : UpperSeq[k] = text[i]]
        ELSE text[i]]
Texts ==
    {p.code : p \in promo_codes} \cup {LowerOf(p.code) : p \in promo_codes}
    \cup {<<"Z","Z","-","J","U","L","Y","-","7","D">>, <<"A","B","-","J","U","L","Y">>}

\* A variant that adds the days to the current expiry even when it has passed
ExtendedExpiry_NoClamp(user, days) ==
    LET found == get_peer_by_telegram_id(peers, user)
        cur == IF Truthy(found[1].expires_at) THEN found[1].expires_at ELSE now
    IN IF found = <<>> THEN 0 ELSE cur + days * DaySeconds

\* The expiry a redemption of `days` days would write for the peer of `user`
\* (lines 693-699), 0 when the user has no peer
ExtendedExpiry(user, days) ==
    LET found == get_peer_by_telegram_id(peers, user)
        cur == IF Truthy(found[1].expires_at) THEN found[1].expires_at ELSE now
        base == IF cur < now THEN now ELSE cur
    IN IF found = <<>> THEN 0 ELSE base + days * DaySeconds

\* A variant that looks the code up without checking its format
PromoRejection_NoFormatCheck(code) ==
    LET found == get_promo_code(code)
        promo == CHOOSE p \in found : TRUE
    IN IF found = {} THEN "not_found"
       ELSE IF Truthy(promo.activated_at) THEN "used"
       ELSE IF CodeDays(code) # promo.days THEN "corrupted"
       ELSE "no"

\* A variant that trusts the stored days and never compares them with the code
PromoRejection_NoDaysCheck(code) ==
    LET found == get_promo_code(code)
        promo == CHOOSE p \in found : TRUE
    IN IF ~MatchesFormat(code) THEN "bad_format"
       ELSE IF found = {} THEN "not_found"
       ELSE IF Truthy(promo.activated_at) THEN "used"
       ELSE "no"

\* handle_promo_code lines 645-680: the format check (645-652), the lookup of
\* the code (655-662), the test of activated_at (664-669) and the comparison
\* of the day count in the code with the stored one (672-680); "no" when the
\* code passes all of them
PromoRejection(code) ==
    LET found == get_promo_code(code)
        promo == CHOOSE p \in found : TRUE
    IN IF ~MatchesFormat(code) THEN "bad_format"
       ELSE IF found = {} THEN "not_found"
       ELSE IF Truthy(promo.activated_at) THEN "used"
       ELSE IF CodeDays(code) # promo.days THEN "corrupted"
       ELSE "no"

\* handle_promo_code lines 641-688, for a user who was asked for a code (the
\* waiting_for_promo flag of the conversation is not modelled): the format
\* check, the lookup of the code and its three rejections
RedeemStart(t, user, name, text) ==
    LET code == Upper(text)
        found == get_promo_code(code)
        promo == CHOOSE p \in found : TRUE
        tk == [IdleTask EXCEPT !.op = "redeem", !.id = user, !.name = name,
                               !.proto = "wireguard", !.text = text,
                               !.code = code]
        rejected == PromoRejection(code)
    IN /\ MayStart(t)
       /\ \A d \in PromoDays : ExtendedExpiry(user, d) <= MaxExpiry
       /\ IF rejected # "no"
          THEN Return(t, tk, rejected, <<>>)
          ELSE /\ tasks' = [tasks EXCEPT ![t] =
                               [tk EXCEPT !.pc = "r_peer", !.days = promo.days]]
               /\ ret' = <<>>
               /\ prevOk' = <<>>
       /\ UNCHANGED <<mode, now, phase, settings, peers, vless_peers, promo_codes,
                      wgLive, xray, nextCred, sw, credited>>

\* handle_promo_code lines 691-699 and 725-730: the peer is read; an existing
\* peer gets its new expiry computed, an absent one is provisioned with
\* get_or_create_peer_and_config(user_id, user_name, expires_at)
RedeemPeer(t) ==
    LET tk == tasks[t]
        found == get_peer_by_telegram_id(peers, tk.id)
    IN /\ tk.pc = "r_peer"
       /\ MayStep(t)
       /\ ExtendedExpiry(tk.id, tk.days) <= MaxExpiry
       /\ tasks' = [tasks EXCEPT ![t] =
             IF found # <<>>
             THEN [tk EXCEPT !.pc = "r_update", !.row = found, !.ts = now,
                             !.exp = ExtendedExpiry(tk.id, tk.days)]
             ELSE [tk EXCEPT !.pc = "lookup",
                             !.exp = now + tk.days * DaySeconds,
                             !.ttl = now + tk.days * DaySeconds]]
       /\ ret' = <<>>
       /\ prevOk' = <<>>
       /\ UNCHANGED <<peers, vless_peers, wgLive, xray, nextCred>>
       /\ Others(t)

\* line 700: storage.update_expiry(user_id, new_expires)
RedeemUpdate(t) ==
    LET tk == tasks[t]
    IN /\ tk.pc = "r_update"
       /\ MayStep(t)
       /\ peers' = update_expiry(peers, tk.id, tk.exp)
       /\ tasks' = [tasks EXCEPT ![t].pc =
                       IF tk.row[1].enabled THEN "activate" ELSE "r_enable"]
       /\ ret' = <<>>
       /\ prevOk' = <<>>
       /\ credited' = Credit(tk.code)
       /\ UNCHANGED <<vless_peers, wgLive, xray, nextCred>>
       /\ UNCHANGED <<mode, now, phase, settings, promo_codes, sw>>

\* lines 703-710: wg.enable_peer of a peer that was read as disabled; a
\* WireGuardError is logged and the handler goes on
RedeemEnable(t) ==
    LET tk == tasks[t]
    IN /\ tk.pc = "r_enable"
       /\ MayStep(t)
       /\ \E o \in WgOutcomes :
            CASE o = "ok" ->
                   /\ wgLive' = wg_enable_peer(wgLive, tk.row[1].public_key,
                                               tk.row[1].ip)
                   /\ tasks' = [tasks EXCEPT ![t].pc = "r_set"]
                   /\ ret' = <<>>
                   /\ prevOk' = <<>>
              [] o = "WireGuardError" ->
                   /\ tasks' = [tasks EXCEPT ![t].pc = "activate"]
                   /\ ret' = <<>>
                   /\ prevOk' = <<>>
                   /\ UNCHANGED wgLive
              [] o = "OSError" ->
                   /\ Return(t, tk, "OSError", <<>>)
                   /\ UNCHANGED wgLive
       /\ UNCHANGED <<peers, vless_peers, xray, nextCred>>
       /\ Others(t)

\* line 706: storage.set_enabled(user_id, True)
RedeemSetEnabled(t) ==
    LET tk == tasks[t]
    IN /\ tk.pc = "r_set"
       /\ MayStep(t)
       /\ peers' = set_enabled(peers, tk.id, TRUE)
       /\ tasks' = [tasks EXCEPT ![t].pc = "activate",
                                 ![t].eff = @ \cup {"reenabled"}]
       /\ ret' = <<>>
       /\ prevOk' = <<>>
       /\ UNCHANGED <<vless_peers, wgLive, xray, nextCred>>
       /\ Others(t)

\* What awaiting update.message.reply_text ends with: the message was sent, or
\* the request to Telegram failed and telegram.error.TelegramError is raised
ReplyOutcomes == {"ok", "TelegramError"}

\* lines 718 and 737, then line 754: the reply that was awaited has ended; when
\* it was sent, storage.activate_promo_code(code, user_id) runs, and when it
\* raised, the handler is left before line 754
Activate(t) ==
    LET tk == tasks[t]
    IN /\ tk.pc = "activate"
       /\ MayStep(t)
       /\ \E o \in ReplyOutcomes :
            IF o = "ok"
            THEN /\ promo_codes' = activate_promo_code(promo_codes, tk.code,
                                                       tk.id, now)
                 /\ Return(t, tk, "ok", <<>>)
            ELSE /\ UNCHANGED promo_codes
                 /\ Return(t, tk, "TelegramError", <<>>)
       /\ UNCHANGED <<mode, now, phase, settings, peers, vless_peers, wgLive,
                      xray, nextCred, sw, credited>>

(* ---------------------------- protocol policy -------------------------- *)
\* The body shared by the six on_proto_* handlers: nothing for a non-admin,
\* who is turned away before the call, and nothing when set_protocol_policy
\* raises ValueError; the call and its arguments are kept in `ret`
SetPolicy(user, wg, vl, primary) ==
    /\ HandlerTurn
    /\ settings' = IF is_admin(user) /\ ~PolicyInvalid(wg, vl, primary)
                   THEN set_protocol_policy(wg, vl, primary)
                   ELSE settings
    /\ ret' = <<[op |-> "policy", proto |-> "", id |-> user, name |-> "",
                 ttl |-> NULL, text |-> <<>>, code |-> <<>>,
                 res |-> IF ~is_admin(user) THEN "denied"
                         ELSE IF PolicyInvalid(wg, vl, primary) THEN "ValueError"
                         ELSE "ok",
                 desc |-> <<>>, eff |-> {}, prev |-> <<>>, ip |-> <<>>,
                 wg |-> wg, vl |-> vl, primary |-> primary]>>
    /\ prevOk' = <<>>
    /\ UNCHANGED <<mode, now, phase, peers, vless_peers, promo_codes, wgLive,
                   xray, nextCred, tasks, sw, credited>>

on_proto_enable_wireguard(user) ==
    SetPolicy(user, TRUE, get_protocol_policy.vless_enabled,
              get_protocol_policy.primary_protocol)

on_proto_enable_vless(user) ==
    SetPolicy(user, get_protocol_policy.wireguard_enabled, TRUE,
              get_protocol_policy.primary_protocol)

on_proto_disable_wireguard(user) ==
    SetPolicy(user, FALSE, get_protocol_policy.vless_enabled,
              IF get_protocol_policy.primary_protocol = "wireguard" THEN "vless"
              ELSE get_protocol_policy.primary_protocol)

on_proto_disable_vless(user) ==
    SetPolicy(user, get_protocol_policy.wireguard_enabled, FALSE,
              IF get_protocol_policy.primary_protocol = "vless" THEN "wireguard"
              ELSE get_protocol_policy.primary_protocol)

on_proto_primary_wireguard(user) ==
    SetPolicy(user, get_protocol_policy.wireguard_enabled,
              get_protocol_policy.vless_enabled, "wireguard")

on_proto_primary_vless(user) ==
    SetPolicy(user, get_protocol_policy.wireguard_enabled,
              get_protocol_policy.vless_enabled, "vless")


(* ----------------------- restore_peers_on_startup ---------------------- *)
JobFrame == UNCHANGED <<mode, now, settings, promo_codes, nextCred, tasks, credited>>

\* lines 49-57: the clock and the policy are read once, then the WireGuard
\* peers to restore
RestoreStart ==
    /\ phase = "starting"
    /\ sw.pc = "idle"
    /\ sw' = [IdleJob EXCEPT !.pc = "rs_wg", !.ts = now,
                             !.vl = get_protocol_policy.vless_enabled,
                             !.todo = IF get_protocol_policy.wireguard_enabled
                                      THEN get_peers_for_restore(peers, now)
                                      ELSE <<>>]
    /\ ret' = <<>>
    /\ prevOk' = <<>>
    /\ UNCHANGED <<phase, peers, vless_peers, wgLive, xray>>
    /\ JobFrame

\* lines 60-70: one wg.enable_peer; a WireGuardError is logged, anything else
\* ends the process before it polls.  With the list done, the relay peers are
\* read (lines 76-77) or the pass is over.
RestoreWg ==
    /\ sw.pc = "rs_wg"
    /\ IF sw.todo = <<>>
       THEN /\ IF sw.vl
               THEN /\ sw' = [sw EXCEPT !.pc = "rs_vl",
                                        !.todo = get_vless_peers_for_restore(
                                                     vless_peers, sw.ts)]
                    /\ UNCHANGED phase
               ELSE sw' = IdleJob /\ phase' = "running"
            /\ UNCHANGED wgLive
       ELSE \E o \in WgOutcomes :
              CASE o = "ok" ->
                     /\ wgLive' = wg_enable_peer(wgLive, Head(sw.todo).public_key,
                                                 Head(sw.todo).ip)
                     /\ sw' = [sw EXCEPT !.todo = Tail(sw.todo),
                                 !.swept = @ \cup {<<"wireguard", Head(sw.todo).telegram_id>>}]
                     /\ UNCHANGED phase
                [] o = "WireGuardError" ->
                     /\ sw' = [sw EXCEPT !.todo = Tail(sw.todo)]
                     /\ UNCHANGED <<wgLive, phase>>
                [] o = "OSError" ->
                     /\ sw' = IdleJob
                     /\ UNCHANGED <<wgLive, phase>>
    /\ ret' = <<>>
    /\ prevOk' = <<>>
    /\ UNCHANGED <<peers, vless_peers, xray>>
    /\ JobFrame

\* lines 80-90: one vless.enable_client(peer["uuid"], peer["name"])
RestoreVless ==
    /\ sw.pc = "rs_vl"
    /\ IF sw.todo = <<>>
       THEN sw' = IdleJob /\ phase' = "running" /\ UNCHANGED xray
       ELSE \E o \in XrayOutcomes :
              /\ xray' = enable_client(xray, Head(sw.todo).uuid, Head(sw.todo).name, o)
              /\ sw' = IF o = "OSError" THEN IdleJob
                       ELSE IF EnableRaises(xray, Head(sw.todo).uuid, o)
                       THEN [sw EXCEPT !.todo = Tail(sw.todo)]
                       ELSE [sw EXCEPT !.todo = Tail(sw.todo),
                               !.swept = @ \cup {<<"vless", Head(sw.todo).telegram_id>>}]
              /\ UNCHANGED phase
    /\ ret' = <<>>
    /\ prevOk' = <<>>
    /\ UNCHANGED <<peers, vless_peers, wgLive>>
    /\ JobFrame

(* ---------------------------- expire_peers_job ------------------------- *)
\* A variant that takes up the expired WireGuard peers whatever the policy says
SweepStart_AnyProtocol ==
    /\ phase = "running"
    /\ sw.pc = "idle"
    /\ JobTurn
    /\ sw' = [IdleJob EXCEPT !.pc = "sw_wg", !.ts = now,
                             !.vl = get_protocol_policy.vless_enabled,
                             !.todo = get_expired_peers(peers, now)]
    /\ ret' = <<>>
    /\ prevOk' = <<>>
    /\ UNCHANGED <<phase, peers, vless_peers, wgLive, xray>>
    /\ JobFrame

\* lines 98-105: the clock and the policy are read, then the expired
\* WireGuard peers
SweepStart ==
    /\ phase = "running"
    /\ sw.pc = "idle"
    /\ JobTurn
    /\ sw' = [IdleJob EXCEPT !.pc = "sw_wg", !.ts = now,
                             !.vl = get_protocol_policy.vless_enabled,
                             !.todo = IF get_protocol_policy.wireguard_enabled
                                      THEN get_expired_peers(peers, now)
                                      ELSE <<>>]
    /\ ret' = <<>>
    /\ prevOk' = <<>>
    /\ UNCHANGED <<phase, peers, vless_peers, wgLive, xray>>
    /\ JobFrame

\* Mutant: the flag is flipped whatever wg.disable_peer did
SweepWg_AlwaysSet ==
    /\ sw.pc = "sw_wg"
    /\ IF sw.todo = <<>>
       THEN /\ sw' = IF sw.vl
                     THEN [sw EXCEPT !.pc = "sw_vl",
                                     !.todo = get_expired_vless_peers(vless_peers, sw.ts)]
                     ELSE IdleJob
            /\ UNCHANGED wgLive
       ELSE \E o \in WgOutcomes :
              IF o = "ok"
              THEN /\ wgLive' = wg_disable_peer(wgLive, Head(sw.todo).public_key)
                   /\ sw' = [sw EXCEPT !.pc = "sw_wg_set",
                               !.swept = @ \cup {<<"wireguard", Head(sw.todo).telegram_id>>}]
              ELSE /\ sw' = [sw EXCEPT !.pc = "sw_wg_set"]
                   /\ UNCHANGED wgLive
    /\ ret' = <<>>
    /\ prevOk' = <<>>
    /\ UNCHANGED <<phase, peers, vless_peers, xray>>
    /\ JobFrame

\* lines 109-121: one wg.disable_peer; a WireGuardError is logged and the loop
\* goes on, anything else ends this run of the job.  With the list done, the
\* expired relay peers are read (lines 124-125) or the job is over.
SweepWg ==
    /\ sw.pc = "sw_wg"
    /\ IF sw.todo = <<>>
       THEN /\ sw' = IF sw.vl
                     THEN [sw EXCEPT !.pc = "sw_vl",
                                     !.todo = get_expired_vless_peers(vless_peers, sw.ts)]
                     ELSE IdleJob
            /\ UNCHANGED wgLive
       ELSE \E o \in WgOutcomes :
              CASE o = "ok" ->
                     /\ wgLive' = wg_disable_peer(wgLive, Head(sw.todo).public_key)
                     /\ sw' = [sw EXCEPT !.pc = "sw_wg_set",
                                 !.swept = @ \cup {<<"wireguard", Head(sw.todo).telegram_id>>}]
                [] o = "WireGuardError" ->
                     /\ sw' = [sw EXCEPT !.todo = Tail(sw.todo)]
                     /\ UNCHANGED wgLive
                [] o = "OSError" ->
                     /\ sw' = IdleJob
                     /\ UNCHANGED wgLive
    /\ ret' = <<>>
    /\ prevOk' = <<>>
    /\ UNCHANGED <<phase, peers, vless_peers, xray>>
    /\ JobFrame

\* Mutant: the loop goes on without storage.set_enabled
SweepWgSet_NoFlag ==
    /\ sw.pc = "sw_wg_set"
    /\ sw' = [sw EXCEPT !.pc = "sw_wg", !.todo = Tail(sw.todo)]
    /\ ret' = <<>>
    /\ prevOk' = <<>>
    /\ UNCHANGED <<phase, peers, vless_peers, wgLive, xray>>
    /\ JobFrame

\* line 112: storage.set_enabled(peer["telegram_id"], False)
SweepWgSet ==
    /\ sw.pc = "sw_wg_set"
    /\ peers' = set_enabled(peers, Head(sw.todo).telegram_id, FALSE)
    /\ sw' = [sw EXCEPT !.pc = "sw_wg", !.todo = Tail(sw.todo)]
    /\ ret' = <<>>
    /\ prevOk' = <<>>
    /\ UNCHANGED <<phase, vless_peers, wgLive, xray>>
    /\ JobFrame

\* lines 129-141: one vless.disable_client
SweepVless ==
    /\ sw.pc = "sw_vl"
    /\ IF sw.todo = <<>>
       THEN sw' = IdleJob /\ UNCHANGED xray
       ELSE \E o \in XrayOutcomes :
              /\ xray' = disable_client(xray, Head(sw.todo).uuid, o)
              /\ sw' = CASE o = "ok" ->
                              [sw EXCEPT !.pc = "sw_vl_set",
                                 !.swept = @ \cup {<<"vless", Head(sw.todo).telegram_id>>}]
                         [] o \in {"VLESSError", "reload"} ->
                              [sw EXCEPT !.todo = Tail(sw.todo)]
                         [] o = "OSError" -> IdleJob
    /\ ret' = <<>>
    /\ prevOk' = <<>>
    /\ UNCHANGED <<phase, peers, vless_peers, wgLive>>
    /\ JobFrame

\* line 132: storage.set_vless_enabled(peer["telegram_id"], False)
SweepVlessSet ==
    /\ sw.pc = "sw_vl_set"
    /\ vless_peers' = set_vless_enabled(vless_peers, Head(sw.todo).telegram_id, FALSE)
    /\ sw' = [sw EXCEPT !.pc = "sw_vl", !.todo = Tail(sw.todo)]
    /\ ret' = <<>>
    /\ prevOk' = <<>>
    /\ UNCHANGED <<phase, peers, wgLive, xray>>
    /\ JobFrame

(* ------------------------------ environment ---------------------------- *)
\* The clock, observed a day at a time.  In the event loop the statements
\* between two awaits run within one reading of it
Tick ==
    /\ now + DaySeconds <= MaxTime
    /\ mode = "conc" \/ (sw.pc = "idle" /\ \A u \in Tasks : TaskAtYield(u))
    /\ now' = now + DaySeconds
    /\ ret' = <<>>
    /\ UNCHANGED <<mode, phase, settings, peers, vless_peers, promo_codes, wgLive,
                   xray, nextCred, tasks, sw, prevOk, credited>>

\* The process is stopped and started again (main): the interface keeps its
\* peers or, after a reboot, has none
Restart ==
    /\ phase = "running"
    /\ AllIdle
    /\ sw.pc = "idle"
    /\ phase' = "starting"
    /\ wgLive' \in {wgLive, {}}
    /\ ret' = <<>>
    /\ prevOk' = <<>>
    /\ UNCHANGED <<mode, now, settings, peers, vless_peers, promo_codes, xray,
                   nextCred, tasks, sw, credited>>

(* ------------------------------ specification -------------------------- *)
Next ==
    \/ \E t \in Tasks, id \in Ids, name \in Names, ttl \in TtlDays \cup {NULL} :
          VpnStart(t, id, name, ttl)
    \/ \E t \in Tasks : Lookup(t)
    \/ \E t \in Tasks : Keygen(t)
    \/ \E t \in Tasks : Insert(t)
    \/ \E t \in Tasks : EnableWg(t)
    \/ \E t \in Tasks : EnableVless(t)
    \/ \E t \in Tasks : Rollback(t)
    \/ \E user \in Ids, days \in PromoDays, prefix \in Prefixes :
          OnPromoDays(user, days, prefix)
    \/ \E t \in Tasks, user \in Ids, name \in Names, text \in Texts :
          RedeemStart(t, user, name, text)
    \/ \E t \in Tasks : RedeemPeer(t)
    \/ \E t \in Tasks : RedeemUpdate(t)
    \/ \E t \in Tasks : RedeemEnable(t)
    \/ \E t \in Tasks : RedeemSetEnabled(t)
    \/ \E t \in Tasks : Activate(t)
    \/ \E user \in Ids : on_proto_enable_wireguard(user)
    \/ \E user \in Ids : on_proto_enable_vless(user)
    \/ \E user \in Ids : on_proto_disable_wireguard(user)
    \/ \E user \in Ids : on_proto_disable_vless(user)
    \/ \E user \in Ids : on_proto_primary_wireguard(user)
    \/ \E user \in Ids : on_proto_primary_vless(user)
    \/ RestoreStart
    \/ RestoreWg
    \/ RestoreVless
    \/ SweepStart
    \/ SweepWg
    \/ SweepWgSet
    \/ SweepVless
    \/ SweepVlessSet
    \/ Tick
    \/ Restart

Spec == Init /\ [][Next]_vars

\* Independent callers on one store: the process is up (the restore pass over
\* the empty store is done) and the policy, which no step changes here, is the
\* default one or the one with the relay primary; the steps of the calls and
\* of the job interleave freely
InitConc ==
    /\ mode = "conc"
    /\ now = 1
    /\ phase = "running"
    /\ settings \in {<<>>, set_protocol_policy(TRUE, TRUE, "vless")}
    /\ peers = <<>>
    /\ vless_peers = <<>>
    /\ promo_codes = {}
    /\ wgLive = {}
    /\ xray = [clients |-> <<>>]
    /\ nextCred = 1
    /\ tasks = [t \in Tasks |-> IdleTask]
    /\ sw = IdleJob
    /\ ret = <<>>
    /\ prevOk = <<>>
    /\ credited = <<>>

NextConc ==
    \/ \E t \in Tasks, id \in Ids, name \in Names, ttl \in TtlDays \cup {NULL} :
          VpnStart(t, id, name, ttl)
    \/ \E t \in Tasks : Lookup(t)
    \/ \E t \in Tasks : Keygen(t)
    \/ \E t \in Tasks : Insert(t)
    \/ \E t \in Tasks : EnableWg(t)
    \/ \E t \in Tasks : EnableVless(t)
    \/ \E t \in Tasks : Rollback(t)
    \/ \E user \in Ids, days \in PromoDays, prefix \in Prefixes :
          OnPromoDays(user, days, prefix)
    \/ \E t \in Tasks, user \in Ids, name \in Names, text \in Texts :
          RedeemStart(t, user, name, text)
    \/ \E t \in Tasks : RedeemPeer(t)
    \/ \E t \in Tasks : RedeemUpdate(t)
    \/ \E t \in Tasks : RedeemEnable(t)
    \/ \E t \in Tasks : RedeemSetEnabled(t)
    \/ \E t \in Tasks : Activate(t)
    \/ SweepStart
    \/ SweepWg
    \/ SweepWgSet
    \/ SweepVless
    \/ SweepVlessSet
    \/ Tick
    \/ Restart
    \/ RestoreStart
    \/ RestoreWg
    \/ RestoreVless

SpecConc == InitConc /\ [][NextConc]_vars

(* ------------------- the bot started on an existing store -------------- *)
\* init_db creates its tables only IF NOT EXISTS: a process started on the
\* database file of an earlier run keeps the rows that file holds. The peers
\* table of such a file: empty, or the row of identity 1 as an earlier run
\* left it (never expiring, running out at the start, running out later, or
\* already swept).
DbPeerRow(exp, en) ==
    set_enabled(create_peer(<<>>, 1, "Alice", 1, PubKey(1), get_next_ip(<<>>),
                            exp).rows, 1, en)
DbPeers ==
    {<<>>} \cup {DbPeerRow(exp, TRUE) : exp \in {NULL, 1, MaxTime}}
           \cup {DbPeerRow(1, FALSE)}

\* The promo_codes table of such a file: a code as on_promo_days stored it and
\* a row whose days column was changed after the code was written
DbPromos ==
    {{[code |-> Upper(generate_promo(1, <<"A", "B">>, 0)), days |-> 1,
       created_by |-> ADMIN_TG_ID, activated_at |-> NULL, activated_by |-> NULL],
      [code |-> Upper(generate_promo(9, <<"A", "B">>, 1)), days |-> 1,
       created_by |-> ADMIN_TG_ID, activated_at |-> NULL, activated_by |-> NULL]}}

InitDb ==
    /\ mode = "seq"
    /\ now = 1
    /\ phase = "starting"
    /\ settings = <<>>
    /\ peers \in DbPeers
    /\ vless_peers = <<>>
    /\ promo_codes \in DbPromos
    /\ wgLive = {}
    /\ xray = [clients |-> <<>>]
    /\ nextCred = Len(peers) + 1
    /\ tasks = [t \in Tasks |-> IdleTask]
    /\ sw = IdleJob
    /\ ret = <<>>
    /\ prevOk = <<>>
    /\ credited = <<>>

\* The start of the process (the policy is the default one, which has no relay
\* peers to restore), the redemption of codes and the clock
NextDb ==
    \/ RestoreStart
    \/ RestoreWg
    \/ \E t \in Tasks, user \in Ids, name \in Names, text \in Texts :
          RedeemStart(t, user, name, text)
    \/ \E t \in Tasks : RedeemPeer(t)
    \/ \E t \in Tasks : RedeemUpdate(t)
    \/ \E t \in Tasks : RedeemEnable(t)
    \/ \E t \in Tasks : RedeemSetEnabled(t)
    \/ \E t \in Tasks : Activate(t)
    \/ \E t \in Tasks : Lookup(t)
    \/ \E t \in Tasks : Keygen(t)
    \/ \E t \in Tasks : Insert(t)
    \/ \E t \in Tasks : EnableWg(t)
    \/ Tick

SpecDb == InitDb /\ [][NextDb]_vars

(* ------------- two first-time provisions and the retry of one ---------- *)
\* Two calls of get_or_create_peer_and_config at a time on an empty store with
\* the default policy; the two calls and the retry of one of them draw three
\* fresh key pairs, numbered from 0
InitRace ==
    /\ mode = "conc"
    /\ now = 1
    /\ phase = "running"
    /\ settings = <<>>
    /\ peers = <<>>
    /\ vless_peers = <<>>
    /\ promo_codes = {}
    /\ wgLive = {}
    /\ xray = [clients |-> <<>>]
    /\ nextCred = MaxCred - 2
    /\ tasks = [t \in Tasks |-> IdleTask]
    /\ sw = IdleJob
    /\ ret = <<>>
    /\ prevOk = <<>>
    /\ credited = <<>>

NextRace ==
    \/ \E t \in Tasks, id \in Ids, name \in Names, ttl \in TtlDays \cup {NULL} :
          VpnStart(t, id, name, ttl)
    \/ \E t \in Tasks : Lookup(t)
    \/ \E t \in Tasks : Keygen(t)
    \/ \E t \in Tasks : Insert(t)
    \/ \E t \in Tasks : EnableWg(t)

SpecRace == InitRace /\ [][NextRace]_vars

(* --------------------- the process up, the job repeating --------------- *)
\* The process is up (the restore pass over the empty store is done) and stays
\* up; handlers and the job share the event loop
InitLive ==
    /\ mode = "seq"
    /\ now = 1
    /\ phase = "running"
    /\ settings = <<>>
    /\ peers = <<>>
    /\ vless_peers = <<>>
    /\ promo_codes = {}
    /\ wgLive = {}
    /\ xray = [clients |-> <<>>]
    /\ nextCred = 1
    /\ tasks = [t \in Tasks |-> IdleTask]
    /\ sw = IdleJob
    /\ ret = <<>>
    /\ prevOk = <<>>
    /\ credited = <<>>

\* The statements of a handler between two awaits
HandlerStep ==
    \E t \in Tasks :
        \/ Lookup(t) \/ Keygen(t) \/ Insert(t) \/ EnableWg(t) \/ EnableVless(t)
        \/ Rollback(t) \/ RedeemPeer(t) \/ RedeemUpdate(t) \/ RedeemEnable(t)
        \/ RedeemSetEnabled(t) \/ Activate(t)

\* The admin sets the policy and creates codes; users ask for a config with a
\* ttl and redeem the codes that exist
NextLive ==
    \/ \E t \in Tasks, id \in Ids, name \in Names, ttl \in TtlDays :
          VpnStart(t, id, name, ttl)
    \/ HandlerStep
    \/ \E user \in {ADMIN_TG_ID}, days \in PromoDays, prefix \in Prefixes :
          OnPromoDays(user, days, prefix)
    \/ \E t \in Tasks, user \in Ids, name \in Names, text \in {p.code : p \in promo_codes} :
          RedeemStart(t, user, name, text)
    \/ \E user \in {ADMIN_TG_ID} : on_proto_enable_wireguard(user)
    \/ \E user \in {ADMIN_TG_ID} : on_proto_enable_vless(user)
    \/ \E user \in {ADMIN_TG_ID} : on_proto_disable_wireguard(user)
    \/ \E user \in {ADMIN_TG_ID} : on_proto_disable_vless(user)
    \/ \E user \in {ADMIN_TG_ID} : on_proto_primary_wireguard(user)
    \/ \E user \in {ADMIN_TG_ID} : on_proto_primary_vless(user)
    \/ SweepStart
    \/ SweepWg
    \/ SweepWgSet
    \/ SweepVless
    \/ SweepVlessSet
    \/ Tick

\* wg.disable_peer / vless.disable_client called for the peer of identity id
\* returns normally
SweepWgOk(id) ==
    /\ SweepWg
    /\ sw.todo # <<>>
    /\ Head(sw.todo).telegram_id = id
    /\ sw'.pc = "sw_wg_set"

SweepVlessOk(id) ==
    /\ SweepVless
    /\ sw.todo # <<>>
    /\ Head(sw.todo).telegram_id = id
    /\ sw'.pc = "sw_vl_set"

\* Scheduling: job_queue.run_repeating keeps starting expire_peers_job whatever
\* the handlers do (strong fairness of its start); the job has no await and a
\* handler runs to its next await (weak fairness of their statements); and a
\* disable call that is made again and again eventually succeeds.
FairLive ==
    /\ SF_vars(SweepStart)
    /\ WF_vars(SweepWg)
    /\ WF_vars(SweepWgSet)
    /\ WF_vars(SweepVless)
    /\ WF_vars(SweepVlessSet)
    /\ WF_vars(HandlerStep)
    /\ \A id \in Ids : SF_vars(SweepWgOk(id))
    /\ \A id \in Ids : SF_vars(SweepVlessOk(id))

SpecLive == InitLive /\ [][NextLive]_vars /\ FairLive

(* ------------------------- vless._reload_xray --------------------------- *)
\* What `xray -test -config ...` ends with: the process exits with a return
\* code and its two output texts, subprocess.run gives up after 5 seconds, or
\* the program cannot be started
TestResults ==
    [kind : {"exit", "timeout", "missing"}, returncode : {0, 1, 23},
     stderr : {"", "bad inbound"}, stdout : {"", "Xray 1.8 failed"}]

\* What `systemctl restart xray` ends with (check=True, timeout=10)
RestartResults == {"ok", "CalledProcessError", "timeout"}

\* result.stderr or result.stdout
ErrorOutput(test) == IF test.stderr # "" THEN test.stderr ELSE test.stdout

\* A variant that restarts the service whatever the test said
reload_xray_RestartAnyway(test, restart) ==
    IF test.kind = "timeout"
    THEN [cmds |-> <<"test">>, raised |-> <<[msg |-> "Xray restart timeout"]>>]
    ELSE IF test.kind = "missing"
    THEN [cmds |-> <<"test">>, raised |-> <<[msg |-> "Xray restart error"]>>]
    ELSE IF restart = "timeout"
    THEN [cmds |-> <<"test", "restart">>,
          raised |-> <<[msg |-> "Xray restart timeout"]>>]
    ELSE IF restart = "CalledProcessError"
    THEN [cmds |-> <<"test", "restart">>,
          raised |-> <<[msg |-> "Failed to restart Xray"]>>]
    ELSE [cmds |-> <<"test", "restart">>, raised |-> <<>>]

\* _reload_xray (lines 82-116): cmds are the commands run, in order; raised is
\* <<>> or the VLESSError it ends with, whose text for a failed validation is
\* "Xray config validation failed:\n{error_output}\nReturn code: {returncode}"
reload_xray(test, restart) ==
    IF test.kind = "timeout"
    THEN [cmds |-> <<"test">>, raised |-> <<[msg |-> "Xray restart timeout"]>>]
    ELSE IF test.kind = "missing"
    THEN [cmds |-> <<"test">>, raised |-> <<[msg |-> "Xray restart error"]>>]
    ELSE IF test.returncode # 0
    THEN [cmds |-> <<"test">>,
          raised |-> <<[msg |-> "Xray config validation failed",
                        error_output |-> ErrorOutput(test),
                        returncode |-> test.returncode]>>]
    ELSE IF restart = "timeout"
    THEN [cmds |-> <<"test", "restart">>,
          raised |-> <<[msg |-> "Xray restart timeout"]>>]
    ELSE IF restart = "CalledProcessError"
    THEN [cmds |-> <<"test", "restart">>,
          raised |-> <<[msg |-> "Failed to restart Xray"]>>]
    ELSE [cmds |-> <<"test", "restart">>, raised |-> <<>>]

\* One call of _reload_xray, kept in `ret` with what the two tools did
ReloadXray(test, restart) ==
    /\ ret' = <<[op |-> "reload", test |-> test, restart |-> restart,
                 cmds |-> reload_xray(test, restart).cmds,
                 raised |-> reload_xray(test, restart).raised,
                 res |-> IF reload_xray(test, restart).raised = <<>>
                         THEN "ok" ELSE "VLESSError"]>>
    /\ UNCHANGED <<mode, now, phase, settings, peers, vless_peers, promo_codes,
                   wgLive, xray, nextCred, tasks, sw, prevOk, credited>>

InitReload ==
    /\ mode = "seq"
    /\ now = 1
    /\ phase = "running"
    /\ settings = <<>>
    /\ peers = <<>>
    /\ vless_peers = <<>>
    /\ promo_codes = {}
    /\ wgLive = {}
    /\ xray = [clients |-> <<>>]
    /\ nextCred = 1
    /\ tasks = [t \in Tasks |-> IdleTask]
    /\ sw = IdleJob
    /\ ret = <<>>
    /\ prevOk = <<>>
    /\ credited = <<>>

NextReload ==
    \E test \in TestResults, restart \in RestartResults : ReloadXray(test, restart)

SpecReload == InitReload /\ [][NextReload]_vars

(* ------------------ codes of any length, made and redeemed ------------- *)
\* Day counts and prefixes a code is generated with (the buttons offer 7 to
\* 365 days; 0 is the smallest count the claim speaks of), at any clock value
GenDays == {0, 1, 7, 30, 365}
GenPrefixes == {<<"A", "B">>, <<"0", "9">>, <<"Z", "5">>}

InitPromo ==
    /\ mode = "seq"
    /\ now \in 0..MaxTime
    /\ phase = "running"
    /\ settings = <<>>
    /\ peers = <<>>
    /\ vless_peers = <<>>
    /\ promo_codes = {}
    /\ wgLive = {}
    /\ xray = [clients |-> <<>>]
    /\ nextCred = 1
    /\ tasks = [t \in Tasks |-> IdleTask]
    /\ sw = IdleJob
    /\ ret = <<>>
    /\ prevOk = <<>>
    /\ credited = <<>>

NextPromo ==
    \/ \E user \in Ids, days \in GenDays, prefix \in GenPrefixes :
          OnPromoDays(user, days, prefix)
    \/ \E t \in Tasks, user \in Ids, name \in Names, text \in Texts :
          RedeemStart(t, user, name, text)
    \/ \E t \in Tasks : RedeemPeer(t)
    \/ \E t \in Tasks : Lookup(t)
    \/ \E t \in Tasks : Keygen(t)
    \/ \E t \in Tasks : Insert(t)
    \/ \E t \in Tasks : EnableWg(t)
    \/ \E t \in Tasks : Activate(t)

SpecPromo == InitPromo /\ [][NextPromo]_vars

(* ------------------ a store near the end of the address range ---------- *)
\* The peers table after n first-time provisions of n other identities
\* (telegram ids and keys above StoreBase): the rows create_peer appends, the
\* i-th with id i and with the address get_next_ip gives after row i - 1,
\* that is FIRST_CLIENT_IP for the first and the last octet plus one after it
StoreBase == 1000
ProvisionedStore(n) ==
    [i \in 1..n |->
        [id |-> i, telegram_id |-> StoreBase + i, name |-> "Alice",
         private_key |-> StoreBase + i, public_key |-> PubKey(StoreBase + i),
         ip |-> FormatIp(SUBNET_PREFIX, FIRST_CLIENT_IP + i - 1),
         expires_at |-> NULL, enabled |-> TRUE]]

\* Store sizes whose last row holds 10.8.0.252, 10.8.0.253 or 10.8.0.254
NearFull == {253 - FIRST_CLIENT_IP, 254 - FIRST_CLIENT_IP, 255 - FIRST_CLIENT_IP}

InitRange ==
    /\ mode = "seq"
    /\ now = 1
    /\ phase = "running"
    /\ settings = <<>>
    /\ peers \in {ProvisionedStore(n) : n \in NearFull}
    /\ vless_peers = <<>>
    /\ promo_codes = {}
    /\ wgLive = {[public_key |-> peers[i].public_key, allowed_ip |-> peers[i].ip] :
                     i \in DOMAIN peers}
    /\ xray = [clients |-> <<>>]
    /\ nextCred = 1
    /\ tasks = [t \in Tasks |-> IdleTask]
    /\ sw = IdleJob
    /\ ret = <<>>
    /\ prevOk = <<>>
    /\ credited = <<>>

NextRange ==
    \/ \E t \in Tasks, id \in Ids, name \in Names, ttl \in TtlDays \cup {NULL} :
          VpnStart(t, id, name, ttl)
    \/ \E t \in Tasks : Lookup(t)
    \/ \E t \in Tasks : Keygen(t)
    \/ \E t \in Tasks : Insert(t)
    \/ \E t \in Tasks : EnableWg(t)

SpecRange == InitRange /\ [][NextRange]_vars

(* ------------------- vless.py: the config file in full ----------------- *)
\* A file is missing, is not JSON, or is a JSON document, of which the log
\* field and the inbounds are kept.  fmt is the layout of the text: "hand" as
\* its author wrote it, "dump" as json.dump(indent=2) writes it.
NoFile == [kind |-> "missing", fmt |-> "", log |-> "", inbounds |-> <<>>]
NotJson == [kind |-> "garbage", fmt |-> "", log |-> "", inbounds |-> <<>>]
JsonFile(fmt, log, inbounds) ==
    [kind |-> "json", fmt |-> fmt, log |-> log, inbounds |-> inbounds]

\* An inbound: settings is <<>> (no such key) or <<s>>, and so is s.clients
Inbound(tag, protocol, security, st) ==
    [tag |-> tag, protocol |-> protocol, security |-> security, settings |-> st]
XSettings(clients) == <<[decryption |-> "none", clients |-> clients]>>
XClient(id, email) == [id |-> id, flow |-> "xtls-rprx-vision", email |-> email]

\* Client ids this program writes, and one written by the operator
XUuids == {1, 2}
ExtUuid == 9

\* _load_config: FileNotFoundError and JSONDecodeError become VLESSError, any
\* other failure of open() (o = "PermissionError") is raised as it is
LoadOutcomes == {"ok", "PermissionError"}
load_config(file, o) ==
    IF o = "PermissionError" /\ file.kind # "missing"
    THEN [res |-> "OSError", err |-> "permission"]
    ELSE IF file.kind = "missing" THEN [res |-> "VLESSError", err |-> "not_found"]
    ELSE IF file.kind = "garbage" THEN [res |-> "VLESSError", err |-> "invalid_json"]
    ELSE [res |-> "ok", err |-> ""]

\* _find_vless_inbound: the index of the first inbound with protocol "vless"
\* and streamSettings.security "reality", 0 for None
find_vless_inbound(config) ==
    LET hits == {i \in DOMAIN config.inbounds :
                    /\ config.inbounds[i].protocol = "vless"
                    /\ config.inbounds[i].security = "reality"}
    IN IF hits = {} THEN 0 ELSE CHOOSE i \in hits : \A j \in hits : i <= j

\* inbound.get("settings", {}).get("clients", []): the list of the document,
\* or a fresh empty list that belongs to no document
GotClients(inb) ==
    IF inb.settings = <<>> \/ inb.settings[1].clients = <<>> THEN <<>>
    ELSE inb.settings[1].clients[1]
Attached(inb) == inb.settings # <<>> /\ inb.settings[1].clients # <<>>

\* The document with the client list of inbound k set to cl
WithClients(config, k, cl) ==
    [config EXCEPT !.inbounds[k].settings =
        <<[config.inbounds[k].settings[1] EXCEPT !.clients = <<cl>>]>>]

\* A variant that writes the new file without copying the old one first
save_config_NoBackup(x, config, cp, wr) ==
    IF wr = "open_failed" THEN [x |-> x, raised |-> TRUE, steps |-> <<>>]
    ELSE IF wr = "dump_failed"
    THEN [x |-> [x EXCEPT !.file = NotJson], raised |-> TRUE, steps |-> <<"write">>]
    ELSE [x |-> [x EXCEPT !.file = JsonFile("dump", config.log, config.inbounds)],
          raised |-> FALSE, steps |-> <<"write">>]

\* _save_config on the pair x of config file and backup file: `cp` of the
\* existing file (check=True), then open(..., 'w'), which empties the file,
\* and json.dump; every exception becomes VLESSError
CpOutcomes == {"ok", "failed"}
WriteOutcomes == {"ok", "open_failed", "dump_failed"}
save_config(x, config, cp, wr) ==
    LET exists == x.file.kind # "missing"
        bk == IF exists THEN [x EXCEPT !.backup = x.file] ELSE x
        bs == IF exists THEN <<"backup">> ELSE <<>>
    IN IF exists /\ cp = "failed" THEN [x |-> x, raised |-> TRUE, steps |-> <<>>]
       ELSE IF wr = "open_failed" THEN [x |-> bk, raised |-> TRUE, steps |-> bs]
       ELSE IF wr = "dump_failed"
       THEN [x |-> [bk EXCEPT !.file = NotJson], raised |-> TRUE,
             steps |-> Append(bs, "write")]
       ELSE [x |-> [bk EXCEPT !.file = JsonFile("dump", config.log, config.inbounds)],
             raised |-> FALSE, steps |-> Append(bs, "write")]

\* What the tools and the file system do during one call; rl is the pair of
\* results of `xray -test` and `systemctl restart` given to reload_xray
ReloadSamples ==
    {<<[kind |-> "exit", returncode |-> 0, stderr |-> "", stdout |-> ""], "ok">>,
     <<[kind |-> "exit", returncode |-> 23, stderr |-> "bad inbound", stdout |-> ""],
       "ok">>}
XrayEnvs == [load : LoadOutcomes, cp : CpOutcomes, wr : WriteOutcomes,
             rl : ReloadSamples]

\* save, then reload: the tail of enable_client / disable_client
SaveAndReload(x, config, env) ==
    LET sv == save_config(x, config, env.cp, env.wr)
    IN IF sv.raised
       THEN [x |-> sv.x, res |-> "VLESSError", err |-> "save", steps |-> sv.steps]
       ELSE IF reload_xray(env.rl[1], env.rl[2]).raised # <<>>
       THEN [x |-> sv.x, res |-> "VLESSError", err |-> "reload",
             steps |-> Append(sv.steps, "reload")]
       ELSE [x |-> sv.x, res |-> "ok", err |-> "", steps |-> Append(sv.steps, "reload")]

\* A variant of enable_client without the check for an existing entry
EnableClientFile_NoCheck(x, uuid, email, env) ==
    LET ld == load_config(x.file, env.load)
        k == find_vless_inbound(x.file)
    IN IF ld.res # "ok" THEN [x |-> x, res |-> ld.res, err |-> ld.err, steps |-> <<>>]
       ELSE IF k = 0
       THEN [x |-> x, res |-> "VLESSError", err |-> "inbound_not_found", steps |-> <<>>]
       ELSE SaveAndReload(x,
                IF Attached(x.file.inbounds[k])
                THEN WithClients(x.file, k, Append(GotClients(x.file.inbounds[k]),
                                                   XClient(uuid, email)))
                ELSE x.file, env)

\* enable_client (lines 119-152) on the files x
EnableClientFile(x, uuid, email, env) ==
    LET ld == load_config(x.file, env.load)
        k == find_vless_inbound(x.file)
    IN IF ld.res # "ok" THEN [x |-> x, res |-> ld.res, err |-> ld.err, steps |-> <<>>]
       ELSE IF k = 0
       THEN [x |-> x, res |-> "VLESSError", err |-> "inbound_not_found", steps |-> <<>>]
       ELSE IF \E i \in DOMAIN GotClients(x.file.inbounds[k]) :
                  GotClients(x.file.inbounds[k])[i].id = uuid
       THEN [x |-> x, res |-> "ok", err |-> "", steps |-> <<>>]
       ELSE SaveAndReload(x,
                IF Attached(x.file.inbounds[k])
                THEN WithClients(x.file, k, Append(GotClients(x.file.inbounds[k]),
                                                   XClient(uuid, email)))
                ELSE x.file, env)

\* disable_client (lines 155-179) on the files x: inbound["settings"] raises
\* KeyError when the inbound has no settings
DisableClientFile(x, uuid, env) ==
    LET ld == load_config(x.file, env.load)
        k == find_vless_inbound(x.file)
    IN IF ld.res # "ok" THEN [x |-> x, res |-> ld.res, err |-> ld.err, steps |-> <<>>]
       ELSE IF k = 0
       THEN [x |-> x, res |-> "VLESSError", err |-> "inbound_not_found", steps |-> <<>>]
       ELSE IF x.file.inbounds[k].settings = <<>>
       THEN [x |-> x, res |-> "KeyError", err |-> "settings", steps |-> <<>>]
       ELSE SaveAndReload(x,
                WithClients(x.file, k,
                    SelectSeq(GotClients(x.file.inbounds[k]), LAMBDA c: c.id # uuid)),
                env)

\* One call of enable_client / disable_client, kept in `ret` with the files as
\* they were before it
XrayEnableCall(uuid, email, env) ==
    /\ xray' = EnableClientFile(xray, uuid, email, env).x
    /\ ret' = <<[op |-> "enable_client", uuid |-> uuid, email |-> email,
                 env |-> env, before |-> xray,
                 res |-> EnableClientFile(xray, uuid, email, env).res,
                 err |-> EnableClientFile(xray, uuid, email, env).err,
                 steps |-> EnableClientFile(xray, uuid, email, env).steps]>>
    /\ UNCHANGED <<mode, now, phase, settings, peers, vless_peers, promo_codes,
                   wgLive, nextCred, tasks, sw, prevOk, credited>>

XrayDisableCall(uuid, env) ==
    /\ xray' = DisableClientFile(xray, uuid, env).x
    /\ ret' = <<[op |-> "disable_client", uuid |-> uuid, email |-> "",
                 env |-> env, before |-> xray,
                 res |-> DisableClientFile(xray, uuid, env).res,
                 err |-> DisableClientFile(xray, uuid, env).err,
                 steps |-> DisableClientFile(xray, uuid, env).steps]>>
    /\ UNCHANGED <<mode, now, phase, settings, peers, vless_peers, promo_codes,
                   wgLive, nextCred, tasks, sw, prevOk, credited>>

\* The config file the program is started on: another protocol's inbound, a
\* VLESS inbound without Reality, and as Reality inbound none, one without
\* settings, one without a clients list, one with an empty list or one with a
\* client of the operator's, followed by a second Reality inbound
OtherInbounds ==
    <<Inbound("vmess-in", "vmess", "none", XSettings(<<<<XClient(ExtUuid, "op")>>>>)),
      Inbound("vless-tls", "vless", "tls", XSettings(<<<<XClient(ExtUuid, "op")>>>>))>>
SecondReality ==
    Inbound("reality-2", "vless", "reality", XSettings(<<<<XClient(ExtUuid, "op")>>>>))
RealitySettings ==
    {<<>>, XSettings(<<>>), XSettings(<<<<>>>>),
     XSettings(<<<<XClient(ExtUuid, "op")>>>>)}
InitialFiles ==
    {NoFile, NotJson, JsonFile("hand", "warning", OtherInbounds)}
    \cup {JsonFile("hand", "warning",
                   OtherInbounds \o <<Inbound("reality", "vless", "reality", st),
                                      SecondReality>>) : st \in RealitySettings}

InitXray ==
    /\ mode = "seq"
    /\ now = 1
    /\ phase = "running"
    /\ settings = <<>>
    /\ peers = <<>>
    /\ vless_peers = <<>>
    /\ promo_codes = {}
    /\ wgLive = {}
    /\ xray \in {[file |-> f, backup |-> NoFile] : f \in InitialFiles}
    /\ nextCred = 1
    /\ tasks = [t \in Tasks |-> IdleTask]
    /\ sw = IdleJob
    /\ ret = <<>>
    /\ prevOk = <<>>
    /\ credited = <<>>

NextXray ==
    \/ \E uuid \in XUuids, env \in XrayEnvs : XrayEnableCall(uuid, "tg", env)
    \/ \E uuid \in XUuids, env \in XrayEnvs : XrayDisableCall(uuid, env)

SpecXray == InitXray /\ [][NextXray]_vars

(* ------------------- set_protocol_policy on any arguments -------------- *)
\* What may be passed as primary_protocol: the two names and another text
PrimaryNames == {"wireguard", "vless", "openvpn"}

\* The settings table holds no policy yet, or one that an earlier call stored
StoredPolicies ==
    {<<>>} \cup
    {set_protocol_policy(q.wireguard_enabled, q.vless_enabled, q.primary_protocol) :
       q \in {r \in [wireguard_enabled : BOOLEAN, vless_enabled : BOOLEAN,
                     primary_protocol : PrimaryNames] :
                ~PolicyInvalid(r.wireguard_enabled, r.vless_enabled,
                               r.primary_protocol)}}

InitPolicy ==
    /\ mode = "seq"
    /\ now = 1
    /\ phase = "running"
    /\ settings \in StoredPolicies
    /\ peers = <<>>
    /\ vless_peers = <<>>
    /\ promo_codes = {}
    /\ wgLive = {}
    /\ xray = [clients |-> <<>>]
    /\ nextCred = 1
    /\ tasks = [t \in Tasks |-> IdleTask]
    /\ sw = IdleJob
    /\ ret = <<>>
    /\ prevOk = <<>>
    /\ credited = <<>>

\* Any caller, any two flags and any name of the primary protocol
NextPolicy ==
    \E user \in Ids, wg \in BOOLEAN, vl \in BOOLEAN, primary \in PrimaryNames :
       SetPolicy(user, wg, vl, primary)

SpecPolicy == InitPolicy /\ [][NextPolicy]_vars

(* ------------------------------- properties ---------------------------- *)
\* The table a protocol keeps its peers in
TableOf(proto) == IF proto = "wireguard" THEN peers ELSE vless_peers

\* C1: in every reachable state, whatever the interleaving of provision,
\* redeem, sweep and restore calls, each of the two peer tables holds at most
\* one row per external identity.
C1_OneRowPerIdentity ==
    \A id \in Ids : Len(RowsOf(peers, id)) <= 1 /\ Len(RowsOf(vless_peers, id)) <= 1

\* A second INSERT for an identity that already has a row was refused
C1_Witness ==
    /\ ret # <<>>
    /\ ret[1].res = "IntegrityError"
    /\ Len(RowsOf(TableOf(ret[1].proto), ret[1].id)) = 1

\* C2: two provision calls in sequence with the same identity, protocol, name
\* and ttl, both succeeding and nothing in between, return the same descriptor
\* and leave exactly one row; the second creates no row, allocates nothing and
\* issues no daemon call.
C2_ProvisionIdempotent ==
    (/\ ret # <<>>
     /\ ret[1].op = "vpn"
     /\ ret[1].res = "ok"
     /\ ret[1].prev # <<>>
     /\ ret[1].prev[1].proto = ret[1].proto
     /\ ret[1].prev[1].id = ret[1].id
     /\ ret[1].prev[1].name = ret[1].name
     /\ ret[1].prev[1].ttl = ret[1].ttl)
    => /\ ret[1].desc = ret[1].prev[1].desc
       /\ ret[1].eff = {}
       /\ Len(RowsOf(TableOf(ret[1].proto), ret[1].id)) = 1

\* The second of two such calls has returned, for either protocol
C2_Witness ==
    /\ ret # <<>>
    /\ ret[1].op = "vpn"
    /\ ret[1].res = "ok"
    /\ ret[1].prev # <<>>
    /\ ret[1].prev[1] = [proto |-> ret[1].proto, id |-> ret[1].id,
                         name |-> ret[1].name, ttl |-> ret[1].ttl,
                         desc |-> ret[1].desc]
    /\ ret[1].proto = "vless"

\* C3: once a row exists for an identity, no step changes its credential
\* material: the private key, public key and address of a point-to-point peer,
\* the uuid of a relay peer.
C3_CredentialsStable ==
    [][\A id \in Ids :
          /\ (RowsOf(peers, id) # <<>>) =>
                /\ RowsOf(peers', id) # <<>>
                /\ \A i \in DOMAIN RowsOf(peers', id) :
                      /\ RowsOf(peers', id)[i].private_key = RowsOf(peers, id)[1].private_key
                      /\ RowsOf(peers', id)[i].public_key = RowsOf(peers, id)[1].public_key
                      /\ RowsOf(peers', id)[i].ip = RowsOf(peers, id)[1].ip
          /\ (RowsOf(vless_peers, id) # <<>> /\ RowsOf(vless_peers', id) # <<>>) =>
                \A i \in DOMAIN RowsOf(vless_peers', id) :
                    RowsOf(vless_peers', id)[i].uuid = RowsOf(vless_peers, id)[1].uuid
      ]_vars

\* A peer that was swept and then redeemed still has the credentials, while a
\* second identity holds a row of its own
C3_Witness ==
    /\ Len(peers) = 2
    /\ \E i \in DOMAIN peers : peers[i].expires_at = MaxExpiry /\ peers[i].enabled

\* Presence in the daemon's live peer set
WgIsLive(row) == \E e \in wgLive : e.public_key = row.public_key
VlessIsLive(row) == row.uuid \in ClientIds(xray)

\* No operation is mid-way: the restore pass is over, no handler call and no
\* run of the job is in progress
Quiescent == phase = "running" /\ AllIdle /\ sw.pc = "idle"

\* C4: when a point-to-point provision returns with a failure of the daemon
\* activation that followed the insert of the row, the store holds no row for
\* the identity.
C4_WgRollback ==
    (/\ ret # <<>>
     /\ ret[1].proto = "wireguard"
     /\ ret[1].res # "ok"
     /\ {"insert", "daemon"} \subseteq ret[1].eff)
    => RowsOf(peers, ret[1].id) = <<>>

\* C5: when a relay provision returns with a failure of enable_client that
\* followed the insert of the row, the relay table holds no row for the
\* identity.
C5_VlessRollback ==
    (/\ ret # <<>>
     /\ ret[1].proto = "vless"
     /\ ret[1].res # "ok"
     /\ {"insert", "daemon"} \subseteq ret[1].eff)
    => RowsOf(vless_peers, ret[1].id) = <<>>

\* C6: a provision call that finds the identity's peer stored with
\* enabled = false returns the error "access disabled or expired", and the
\* tables and the daemon's live peer sets are as they were before the call.
C6_DisabledPeerRefused ==
    [][\A t \in Tasks :
          (/\ tasks[t].pc = "lookup"
           /\ tasks'[t].pc # "lookup"
           /\ RowsOf(TableOf(tasks[t].proto), tasks[t].id) # <<>>
           /\ ~RowsOf(TableOf(tasks[t].proto), tasks[t].id)[1].enabled)
          => /\ ret' # <<>>
             /\ ret'[1].res = "disabled"
             /\ ret'[1].id = tasks[t].id
             /\ ret'[1].eff = {}
             /\ UNCHANGED <<peers, vless_peers, wgLive, xray>>
      ]_vars

\* A provision call for a swept relay peer has just been refused
C6_Witness ==
    /\ ret # <<>>
    /\ ret[1].op = "vpn"
    /\ ret[1].res = "disabled"
    /\ ret[1].proto = "vless"
    /\ RowsOf(vless_peers, ret[1].id) # <<>>

\* C7: whenever no operation is mid-way, every peer stored with enabled = true
\* and an expiry that is null or in the future is in the daemon's live peer
\* set.
C7_EnabledPeersLive ==
    Quiescent =>
       /\ \A i \in DOMAIN peers :
            (peers[i].enabled /\ (peers[i].expires_at = NULL \/ peers[i].expires_at > now))
            => WgIsLive(peers[i])
       /\ \A i \in DOMAIN vless_peers :
            (/\ vless_peers[i].enabled
             /\ (vless_peers[i].expires_at = NULL \/ vless_peers[i].expires_at > now))
            => VlessIsLive(vless_peers[i])

\* C8: whenever no operation is mid-way, no peer stored with enabled = false is
\* in the daemon's live peer set (the interface's peer table, the relay
\* inbound's client list).
C8_DisabledPeersNotLive ==
    Quiescent =>
       /\ \A i \in DOMAIN peers : ~peers[i].enabled => ~WgIsLive(peers[i])
       /\ \A i \in DOMAIN vless_peers :
            ~vless_peers[i].enabled => ~VlessIsLive(vless_peers[i])

\* Both tables hold a disabled peer while nothing is in progress
C8_Witness ==
    /\ Quiescent
    /\ \E i \in DOMAIN peers : ~peers[i].enabled
    /\ \E i \in DOMAIN vless_peers : ~vless_peers[i].enabled

\* C9: a run of the expiry job takes up every peer of a policy-enabled
\* protocol that is stored enabled with a non-null expiry <= now, and when the
\* run is over every peer whose disable call succeeded is stored with
\* enabled = false and is absent from the daemon's live peer set.
C9_SweepDisablesExpired ==
    [][/\ (sw.pc = "idle" /\ sw'.pc = "sw_wg" /\ get_protocol_policy.wireguard_enabled)
          => \A i \in DOMAIN peers :
                (/\ peers[i].enabled
                 /\ peers[i].expires_at # NULL
                 /\ peers[i].expires_at <= now)
                => \E j \in DOMAIN sw'.todo : sw'.todo[j] = peers[i]
       /\ (sw.pc = "sw_wg" /\ sw'.pc = "sw_vl")
          => \A i \in DOMAIN vless_peers :
                (/\ vless_peers[i].enabled
                 /\ vless_peers[i].expires_at # NULL
                 /\ vless_peers[i].expires_at <= sw.ts)
                => \E j \in DOMAIN sw'.todo : sw'.todo[j] = vless_peers[i]
       /\ (sw.pc \in {"sw_wg", "sw_vl"} /\ sw'.pc = "idle")
          => \A sp \in sw.swept :
                /\ sp[1] = "wireguard" =>
                     /\ RowsOf(peers', sp[2]) # <<>>
                     /\ ~RowsOf(peers', sp[2])[1].enabled
                     /\ \A e \in wgLive' :
                          e.public_key # RowsOf(peers', sp[2])[1].public_key
                /\ sp[1] = "vless" =>
                     /\ RowsOf(vless_peers', sp[2]) # <<>>
                     /\ ~RowsOf(vless_peers', sp[2])[1].enabled
                     /\ RowsOf(vless_peers', sp[2])[1].uuid \notin ClientIds(xray')
      ]_vars

\* A run of the job is at its end, having disabled a peer of each protocol
C9_Witness ==
    /\ sw.pc = "sw_vl"
    /\ sw.todo = <<>>
    /\ \E a, b \in Ids : sw.swept = {<<"wireguard", a>>, <<"vless", b>>}

\* C10: the job writes enabled = false for a peer only in the step after the
\* disable call for that peer returned normally; a failing disable call leaves
\* the table as it was, with the peer still selected by the expiry query.
C10_FlagOnlyAfterDisable ==
    [][/\ \A id \in Ids :
            (/\ RowsOf(peers, id) # <<>>
             /\ RowsOf(peers', id) # <<>>
             /\ RowsOf(peers, id)[1].enabled
             /\ ~RowsOf(peers', id)[1].enabled)
            => /\ sw.pc = "sw_wg_set"
               /\ Head(sw.todo).telegram_id = id
               /\ <<"wireguard", id>> \in sw.swept
               /\ ~WgIsLive(RowsOf(peers, id)[1])
       /\ \A id \in Ids :
            (/\ RowsOf(vless_peers, id) # <<>>
             /\ RowsOf(vless_peers', id) # <<>>
             /\ RowsOf(vless_peers, id)[1].enabled
             /\ ~RowsOf(vless_peers', id)[1].enabled)
            => /\ sw.pc = "sw_vl_set"
               /\ Head(sw.todo).telegram_id = id
               /\ <<"vless", id>> \in sw.swept
               /\ ~VlessIsLive(RowsOf(vless_peers, id)[1])
       /\ (sw.pc = "sw_wg" /\ sw.todo # <<>> /\ sw'.pc # "sw_wg_set")
          => /\ peers' = peers
             /\ \E j \in DOMAIN get_expired_peers(peers', now') :
                  get_expired_peers(peers', now')[j] = Head(sw.todo)
       /\ (sw.pc = "sw_vl" /\ sw.todo # <<>> /\ sw'.pc # "sw_vl_set")
          => /\ vless_peers' = vless_peers
             /\ \E j \in DOMAIN get_expired_vless_peers(vless_peers', now') :
                  get_expired_vless_peers(vless_peers', now')[j] = Head(sw.todo)
      ]_vars

\* A run of the job went through its list and a disable call failed: the peer
\* is still stored enabled and expired
C10_Witness ==
    /\ sw.pc = "sw_wg"
    /\ sw.todo = <<>>
    /\ sw.swept = {}
    /\ get_protocol_policy.wireguard_enabled
    /\ get_expired_peers(peers, sw.ts) # <<>>

\* The peers a restore pass started at ts has to bring up: those of a
\* policy-enabled protocol stored enabled with an expiry null or later than ts
WgToRestore(ts) ==
    {i \in DOMAIN peers :
        /\ get_protocol_policy.wireguard_enabled
        /\ peers[i].enabled
        /\ (peers[i].expires_at = NULL \/ peers[i].expires_at > ts)}
VlessToRestore(ts) ==
    {i \in DOMAIN vless_peers :
        /\ get_protocol_policy.vless_enabled
        /\ vless_peers[i].enabled
        /\ (vless_peers[i].expires_at = NULL \/ vless_peers[i].expires_at > ts)}

C12_ActivatesAtMostOnce ==
    [][ /\ \A p \in promo_codes :
              p.activated_at # NULL => p \in promo_codes'
        /\ \A c \in DOMAIN credited' : credited'[c] <= 1 ]_vars

\* C13: redeem marks the code activated only after the peer mutation
\* succeeded. A redeem call that marks the code has a peer row for its
\* identity; the call that found no peer provisioned one, and the call that
\* read a disabled peer has enabled it in the daemon and in the store. A call
\* whose provisioning or re-enabling failed leaves the code unactivated.
C13_ActivatedOnlyAfterSuccess ==
    [][\A t \in Tasks :
          (/\ tasks[t].pc = "activate"
           /\ tasks'[t].pc = "idle"
           /\ promo_codes' # promo_codes)
          => /\ get_peer_by_telegram_id(peers, tasks[t].id) # <<>>
             /\ tasks[t].row = <<>> => "insert" \in tasks[t].eff
             /\ (tasks[t].row # <<>> /\ ~tasks[t].row[1].enabled)
                   => "reenabled" \in tasks[t].eff
      ]_vars

\* C14: an identity with no peer that redeems a valid code worth D days at
\* time now gets a fresh peer whose stored expiry is now + D days.
C14_FreshPeerExpiry ==
    [][\A t \in Tasks :
          (/\ tasks[t].op = "redeem"
           /\ tasks[t].pc = "insert"
           /\ tasks'[t].pc = "enable")
          => /\ get_peer_by_telegram_id(peers', tasks[t].id) # <<>>
             /\ get_peer_by_telegram_id(peers', tasks[t].id)[1].expires_at
                  = now + tasks[t].days * DaySeconds
      ]_vars

\* C15: an identity with an existing peer that redeems a valid code worth D
\* days at time now has its expiry set to max(now, current expiry) + D days:
\* T + D days for a current expiry T in the future, now + D days for one in
\* the past.
C15_ExtensionMath ==
    [][\A t \in Tasks :
          (/\ tasks[t].pc = "r_update"
           /\ tasks'[t].pc # "r_update"
           /\ get_peer_by_telegram_id(peers, tasks[t].id)[1].expires_at # NULL)
          => LET T == get_peer_by_telegram_id(peers, tasks[t].id)[1].expires_at
                 D == CodeDays(tasks[t].code)
             IN get_peer_by_telegram_id(peers', tasks[t].id)[1].expires_at
                  = (IF T > now THEN T ELSE now) + D * DaySeconds
      ]_vars

\* A peer whose expiry was in the past has just been extended from now
C15_Witness ==
    \E t \in Tasks :
       /\ tasks[t].op = "redeem"
       /\ tasks[t].pc \in {"activate", "r_enable"}
       /\ tasks[t].row # <<>>
       /\ tasks[t].row[1].expires_at # NULL
       /\ tasks[t].row[1].expires_at < now
       /\ get_peer_by_telegram_id(peers, tasks[t].id)[1].expires_at
            = now + CodeDays(tasks[t].code) * DaySeconds

\* C16: a well-formed, not yet activated code whose embedded day count differs
\* from the stored days is rejected as corrupted. The redeem call that was
\* given it returns "corrupted"; no call goes on with such a code, so no peer
\* is created, extended or re-enabled for it, and the code is never marked
\* activated.
Corrupted(code) ==
    /\ MatchesFormat(code)
    /\ \E p \in promo_codes :
          p.code = code /\ p.activated_at = NULL /\ CodeDays(code) # p.days
C16_CorruptedRejected ==
    /\ \A t \in Tasks : tasks[t].op = "redeem" => ~Corrupted(tasks[t].code)
    /\ (ret # <<>> /\ ret[1].op = "redeem" /\ Corrupted(ret[1].code))
          => ret[1].res = "corrupted" /\ ret[1].eff = {}
    /\ \A p \in promo_codes :
          (MatchesFormat(p.code) /\ CodeDays(p.code) # p.days)
             => p.activated_at = NULL /\ p.code \notin DOMAIN credited

\* A redeem call given the stored code AB-AUGU-9D, whose row says 1 day, has
\* just returned with the rejection
C16_Witness ==
    /\ ret # <<>>
    /\ ret[1].op = "redeem"
    /\ ret[1].res = "corrupted"
    /\ Corrupted(ret[1].code)
    /\ CodeDays(ret[1].code) = 9
    /\ \E p \in promo_codes : p.code = ret[1].code /\ p.days = 1

\* C17 as stated: redeem rejects any string that does not match the code
\* format before any store lookup. A redeem call whose text does not match
\* returns in its first step with the format rejection, no call in progress
\* carries such a text, and the step leaves the stores and the daemons alone.
C17_FormatRejectedFirst ==
    [][ /\ \A t \in Tasks :
              tasks'[t].op = "redeem" => MatchesFormat(tasks'[t].text)
        /\ (ret' # <<>> /\ ret'[1].op = "redeem" /\ ~MatchesFormat(ret'[1].text))
              => /\ ret'[1].res = "bad_format"
                 /\ ret'[1].eff = {}
                 /\ UNCHANGED <<peers, vless_peers, promo_codes, settings,
                                wgLive, xray, credited>> ]_vars

\* C17 amended: the format is matched against the upper-cased text
\* (code = text.strip().upper()), so a code typed in lower case is not
\* rejected; a text whose upper-cased form does not match is rejected in the
\* first step of the call, before any lookup or mutation.
C17_UpperedFormatRejectedFirst ==
    [][ /\ \A t \in Tasks :
              tasks'[t].op = "redeem" => MatchesFormat(Upper(tasks'[t].text))
        /\ (/\ ret' # <<>>
            /\ ret'[1].op = "redeem"
            /\ ~MatchesFormat(Upper(ret'[1].text)))
              => /\ ret'[1].res = "bad_format"
                 /\ ret'[1].eff = {}
                 /\ UNCHANGED <<peers, vless_peers, promo_codes, settings,
                                wgLive, xray, credited>> ]_vars

\* A redeem call given the text AB-JULY has just been rejected for its format
C17_Witness ==
    /\ ret # <<>>
    /\ ret[1].op = "redeem"
    /\ ret[1].res = "bad_format"
    /\ ret[1].text # <<>>
    /\ ~MatchesFormat(Upper(ret[1].text))

\* C18: in every reachable state, after any sequence of admin policy actions
\* from the default policy, the stored protocol policy has at least one
\* protocol enabled and its primary protocol is an enabled one.
C18_PolicyValid ==
    LET pol == get_protocol_policy
    IN /\ pol.wireguard_enabled \/ pol.vless_enabled
       /\ pol.primary_protocol \in {"wireguard", "vless"}
       /\ pol.primary_protocol = "wireguard" => pol.wireguard_enabled
       /\ pol.primary_protocol = "vless" => pol.vless_enabled

\* The admin has enabled the relay, made it primary and disabled WireGuard
C18_Witness ==
    /\ settings # <<>>
    /\ ~settings[1].wireguard_enabled
    /\ settings[1].vless_enabled
    /\ settings[1].primary_protocol = "vless"

\* C19: a set_protocol_policy call with an invalid combination (both protocols
\* disabled, a primary that is not one of the two protocol names, or a primary
\* naming a disabled protocol) is rejected before any persistence: the policy
\* read afterwards is the one read before the call.
C19_InvalidPolicyRejected ==
    [][(/\ ret' # <<>>
        /\ ret'[1].op = "policy"
        /\ ret'[1].res # "denied"
        /\ \/ ~ret'[1].wg /\ ~ret'[1].vl
           \/ ret'[1].primary \notin {"wireguard", "vless"}
           \/ ret'[1].primary = "wireguard" /\ ~ret'[1].wg
           \/ ret'[1].primary = "vless" /\ ~ret'[1].vl)
       => /\ ret'[1].res = "ValueError"
          /\ settings' = settings
          /\ get_protocol_policy' = get_protocol_policy
      ]_vars

\* A call with both protocols enabled and a primary that is no protocol name
\* has just been rejected, and a policy stored earlier is still there
C19_Witness ==
    /\ ret # <<>>
    /\ ret[1].op = "policy"
    /\ ret[1].res = "ValueError"
    /\ ret[1].wg /\ ret[1].vl
    /\ ret[1].primary = "openvpn"
    /\ settings # <<>>

\* C20: in every reachable state no two point-to-point peers share a leased IP
\* address, also when two first-time provisions for different identities
\* interleave so that both read the allocator before either inserts.
C20_LeasedIpsDistinct ==
    \A i \in DOMAIN peers : \A j \in DOMAIN peers :
        i # j => peers[i].ip # peers[j].ip

\* Two first-time provisions for different identities hold the same address,
\* both read from the allocator, and the first of them has inserted its row
C20_Witness ==
    \E t \in Tasks : \E u \in Tasks :
       /\ t # u
       /\ tasks[t].proto = "wireguard"
       /\ tasks[u].proto = "wireguard"
       /\ tasks[t].id # tasks[u].id
       /\ tasks[t].pc = "enable"
       /\ tasks[u].pc = "insert"
       /\ tasks[t].ip = tasks[u].ip
       /\ get_peer_by_telegram_id(peers, tasks[t].id) # <<>>
       /\ get_peer_by_telegram_id(peers, tasks[t].id)[1].ip = tasks[u].ip
       /\ get_peer_by_telegram_id(peers, tasks[u].id) = <<>>

C22_SequentialAddresses ==
    \A k \in DOMAIN peers :
        /\ peers[k].ip = <<"10.8.0.", 10 + k - 1>>
        /\ peers[k].ip[2] >= 10

\* The second of two successful first-time provisions of distinct identities
\* has just returned
C22_Witness ==
    /\ ret # <<>>
    /\ ret[1].op = "vpn"
    /\ ret[1].res = "ok"
    /\ "insert" \in ret[1].eff
    /\ Len(peers) = 2
    /\ peers[1].telegram_id # peers[2].telegram_id
    /\ peers[2].telegram_id = ret[1].id
    /\ peers[2].ip = <<"10.8.0.", 11>>
    /\ \A k \in DOMAIN peers : WgIsLive(peers[k])

\* C23: the sweeper is safe to run together with a redemption on the same
\* peer. A redeem call that found the peer of its identity with an expiry that
\* had passed returns with success; the peer was in the interface, or the
\* sweeper had come first and the call read the peer as disabled; the sweeper,
\* which may also have run while the call waited for its reply to be sent, is
\* not in a pass. Then the peer, whose expiry is now in the future, is enabled
\* in the store and present in the interface.
C23_SweepAndRedeem ==
    [][\A t \in Tasks :
          (/\ tasks[t].op = "redeem"
           /\ tasks[t].pc = "activate"
           /\ tasks'[t].pc = "idle"
           /\ ret'[1].res = "ok"
           /\ sw'.pc = "idle"
           /\ tasks[t].row # <<>>
           /\ tasks[t].row[1].expires_at # NULL
           /\ tasks[t].row[1].expires_at <= tasks[t].ts
           /\ ~tasks[t].row[1].enabled \/ WgIsLive(tasks[t].row[1]))
          => LET r == get_peer_by_telegram_id(peers', tasks[t].id)[1]
             IN r.expires_at > now'
                  => /\ r.enabled
                     /\ \E e \in wgLive' : e.public_key = r.public_key
      ]_vars

\* C24: promo codes are created only by an admin action: in every reachable
\* state the creator of every stored promo code is the admin identity.
C24_PromoCreatedByAdmin ==
    \A p \in promo_codes : is_admin(p.created_by)

\* C25: the protocol policy is mutated only by an admin action: an enable,
\* disable or set-primary callback issued by a non-admin identity is turned
\* away and leaves the stored policy unchanged.
C25_PolicyOnlyByAdmin ==
    [][(/\ ret' # <<>>
        /\ ret'[1].op = "policy"
        /\ ret'[1].id # ADMIN_TG_ID)
       => /\ ret'[1].res = "denied"
          /\ settings' = settings
          /\ get_protocol_policy' = get_protocol_policy
      ]_vars

\* A non-admin has just pressed "enable VLESS" under a policy with the relay
\* disabled, a change the store would have accepted
C25_Witness ==
    /\ ret # <<>>
    /\ ret[1].op = "policy"
    /\ ret[1].id # ADMIN_TG_ID
    /\ ret[1].res = "denied"
    /\ ret[1].wg /\ ret[1].vl /\ ret[1].primary = "wireguard"
    /\ ~get_protocol_policy.vless_enabled

\* C26: a get-access request (/vpn or the get-access button) is served in the
\* policy's current primary protocol: the request of an identity with no peer
\* provisions a peer only in that protocol's table, and no step of the request
\* changes the other protocol's table or daemon state.
C26_OnlyPrimaryProtocol ==
    [][\A t \in Tasks :
          /\ (tasks[t].pc = "idle" /\ tasks'[t].op = "vpn")
                => /\ tasks'[t].proto = get_protocol_policy.primary_protocol
                   /\ UNCHANGED <<peers, vless_peers, wgLive, xray>>
          /\ (tasks[t].op = "vpn" /\ tasks'[t] # tasks[t])
                => /\ tasks[t].proto = "wireguard" => UNCHANGED <<vless_peers, xray>>
                   /\ tasks[t].proto = "vless" => UNCHANGED <<peers, wgLive>>
                   /\ (tasks[t].pc = "insert" /\ tasks'[t].pc = "enable")
                        => IF tasks[t].proto = "wireguard"
                           THEN Len(peers') = Len(peers) + 1
                           ELSE Len(vless_peers') = Len(vless_peers) + 1
      ]_vars

\* Under a policy with the relay primary, an identity with no peer of either
\* kind has just been given a relay peer, and the WireGuard side holds a peer
\* of somebody else
C26_Witness ==
    /\ ret # <<>>
    /\ ret[1].op = "vpn"
    /\ ret[1].proto = "vless"
    /\ ret[1].res = "ok"
    /\ "insert" \in ret[1].eff
    /\ get_protocol_policy.primary_protocol = "vless"
    /\ get_peer_by_telegram_id(peers, ret[1].id) = <<>>
    /\ get_vless_peer_by_telegram_id(vless_peers, ret[1].id) # <<>>
    /\ peers # <<>>
    /\ wgLive # {}

\* C27: the relay reload validates the config first and restarts the service
\* only if the validation passed: whenever the config test fails, no restart
\* is issued and a relay error with the validation diagnostics is raised.
C27_ValidateBeforeRestart ==
    (ret # <<>> /\ ret[1].op = "reload")
    => /\ ret[1].cmds[1] = "test"
       /\ (\E i \in DOMAIN ret[1].cmds : ret[1].cmds[i] = "restart")
            => /\ ret[1].cmds = <<"test", "restart">>
               /\ ret[1].test.kind = "exit"
               /\ ret[1].test.returncode = 0
       /\ (ret[1].test.kind = "exit" /\ ret[1].test.returncode # 0)
            => /\ ret[1].cmds = <<"test">>
               /\ ret[1].raised # <<>>
               /\ ret[1].raised[1].msg = "Xray config validation failed"
               /\ ret[1].raised[1].returncode = ret[1].test.returncode
               /\ ret[1].raised[1].error_output =
                     (IF ret[1].test.stderr # "" THEN ret[1].test.stderr
                      ELSE ret[1].test.stdout)

\* A test that left its diagnostics on standard output and exited with 23
C27_Witness ==
    /\ ret # <<>>
    /\ ret[1].op = "reload"
    /\ ret[1].test.kind = "exit"
    /\ ret[1].test.returncode = 23
    /\ ret[1].test.stderr = ""
    /\ ret[1].test.stdout = "Xray 1.8 failed"
    /\ ret[1].restart = "ok"
    /\ ret[1].res = "VLESSError"
    /\ ret[1].raised[1].error_output = "Xray 1.8 failed"

\* C28: with the job repeating, the peer's protocol staying enabled in the
\* policy, its expiry not extended and the disable call eventually succeeding,
\* every peer stored enabled with expiry <= now is eventually stored disabled
\* and absent from the daemon's live peers.
C28_ExpiredEventuallyDisabled ==
    \A id \in Ids :
       /\ (\E i \in DOMAIN peers :
              /\ peers[i].telegram_id = id /\ peers[i].enabled
              /\ peers[i].expires_at # NULL /\ peers[i].expires_at <= now)
          ~> \/ \E i \in DOMAIN peers :
                   /\ peers[i].telegram_id = id /\ ~peers[i].enabled
                   /\ ~WgIsLive(peers[i])
             \/ ~get_protocol_policy.wireguard_enabled
             \/ \E i \in DOMAIN peers :
                   /\ peers[i].telegram_id = id /\ peers[i].expires_at # NULL
                   /\ peers[i].expires_at > now
       /\ (\E i \in DOMAIN vless_peers :
              /\ vless_peers[i].telegram_id = id /\ vless_peers[i].enabled
              /\ vless_peers[i].expires_at # NULL /\ vless_peers[i].expires_at <= now)
          ~> \/ \E i \in DOMAIN vless_peers :
                   /\ vless_peers[i].telegram_id = id /\ ~vless_peers[i].enabled
                   /\ ~VlessIsLive(vless_peers[i])
             \/ ~get_protocol_policy.vless_enabled
             \/ \E i \in DOMAIN vless_peers :
                   /\ vless_peers[i].telegram_id = id
                   /\ vless_peers[i].expires_at # NULL
                   /\ vless_peers[i].expires_at > now

\* The job has just stored enabled=false for the expired peer of identity 2,
\* which the interface no longer holds, with the protocol enabled in the policy
C28_Witness ==
    /\ sw.pc = "sw_wg"
    /\ <<"wireguard", 2>> \in sw.swept
    /\ get_protocol_policy.wireguard_enabled
    /\ \E i \in DOMAIN peers :
          /\ peers[i].telegram_id = 2 /\ ~peers[i].enabled
          /\ peers[i].expires_at # NULL /\ peers[i].expires_at <= now
          /\ ~WgIsLive(peers[i])

\* C29: in the restore pass and in the expiry job, a failure of the daemon or
\* adapter while handling one peer does not abort the batch: when the pass
\* ends, no other peer it selected, of either protocol, is left unhandled.
C29_BatchNotAborted ==
    [][(sw.pc # "idle" /\ sw'.pc = "idle")
        => /\ sw.todo # <<>> => Tail(sw.todo) = <<>>
           /\ (sw.pc = "sw_wg" /\ sw.vl)
                => get_expired_vless_peers(vless_peers, sw.ts) = <<>>
           /\ (sw.pc = "rs_wg" /\ sw.vl)
                => get_vless_peers_for_restore(vless_peers, sw.ts) = <<>>]_vars

\* C30: the restore pass and the expiry job act only on the protocols whose
\* policy flag is enabled: for a protocol whose flag is disabled, no step of a
\* pass calls the adapter for one of its peers or changes a row of its table.
C30_DisabledProtocolUntouched ==
    [][(sw.pc # "idle" \/ sw'.pc # "idle")
        => /\ ~get_protocol_policy.wireguard_enabled
                => /\ peers' = peers
                   /\ wgLive' = wgLive
                   /\ sw'.pc # "sw_wg_set"
                   /\ sw'.pc \in {"sw_wg", "rs_wg"} => sw'.todo = <<>>
                   /\ \A id \in Ids : <<"wireguard", id>> \notin sw'.swept
           /\ ~get_protocol_policy.vless_enabled
                => /\ vless_peers' = vless_peers
                   /\ xray' = xray
                   /\ sw'.pc \notin {"sw_vl", "sw_vl_set", "rs_vl"}
                   /\ \A id \in Ids : <<"vless", id>> \notin sw'.swept]_vars

\* The job is at the relay peers, WireGuard being disabled in the policy, and
\* an expired WireGuard peer is still stored enabled and still on the interface
C30_Witness ==
    /\ sw.pc = "sw_vl"
    /\ ~get_protocol_policy.wireguard_enabled
    /\ \E i \in DOMAIN peers :
          /\ peers[i].enabled
          /\ peers[i].expires_at # NULL
          /\ peers[i].expires_at <= sw.ts
          /\ WgIsLive(peers[i])

\* C31: enable_client is a no-op when the id is already in the client list of
\* the located inbound (no write, no backup, no reload, no error), so no
\* sequence of enable_client / disable_client calls leaves two entries with
\* the same id in a client list.
C31_EnableIdempotent ==
    /\ (/\ ret # <<>>
        /\ ret[1].op = "enable_client"
        /\ load_config(ret[1].before.file, ret[1].env.load).res = "ok"
        /\ find_vless_inbound(ret[1].before.file) # 0
        /\ \E c \in {GotClients(ret[1].before.file.inbounds[
                           find_vless_inbound(ret[1].before.file)])[i] :
                       i \in DOMAIN GotClients(ret[1].before.file.inbounds[
                           find_vless_inbound(ret[1].before.file)])} :
               c.id = ret[1].uuid)
       => /\ ret[1].res = "ok"
          /\ ret[1].steps = <<>>
          /\ xray = ret[1].before
    /\ \A k \in DOMAIN xray.file.inbounds :
          \A i, j \in DOMAIN GotClients(xray.file.inbounds[k]) :
             GotClients(xray.file.inbounds[k])[i].id =
             GotClients(xray.file.inbounds[k])[j].id => i = j

\* enable_client for an id the list holds, next to another client, returned
\* normally although a write would have failed
C31_Witness ==
    /\ ret # <<>>
    /\ ret[1].op = "enable_client"
    /\ ret[1].res = "ok"
    /\ ret[1].steps = <<>>
    /\ ret[1].env.wr = "dump_failed"
    /\ ret[1].env.load = "ok"
    /\ find_vless_inbound(xray.file) # 0
    /\ Len(GotClients(xray.file.inbounds[find_vless_inbound(xray.file)])) >= 2
    /\ \E i \in DOMAIN GotClients(xray.file.inbounds[find_vless_inbound(xray.file)]) :
          GotClients(xray.file.inbounds[find_vless_inbound(xray.file)])[i].id
             = ret[1].uuid

\* C32: enable_client and disable_client change only the client list of the
\* located Reality inbound: enable_client adds exactly the one new record,
\* disable_client removes exactly the entries with the id, every other
\* inbound and field stays as it was; without such an inbound both fail with
\* the inbound-not-found error and write nothing.
C32_OnlyClientList ==
    (/\ ret # <<>>
     /\ ret[1].op \in {"enable_client", "disable_client"}
     /\ load_config(ret[1].before.file, ret[1].env.load).res = "ok")
    => LET old == ret[1].before.file
           k == find_vless_inbound(old)
       IN IF k = 0
          THEN /\ ret[1].res = "VLESSError"
               /\ ret[1].err = "inbound_not_found"
               /\ xray = ret[1].before
          ELSE /\ xray.file.kind = "json"
               /\ xray.file.log = old.log
               /\ Len(xray.file.inbounds) = Len(old.inbounds)
               /\ \A j \in DOMAIN old.inbounds :
                     j # k => xray.file.inbounds[j] = old.inbounds[j]
               /\ xray.file.inbounds[k].tag = old.inbounds[k].tag
               /\ xray.file.inbounds[k].protocol = old.inbounds[k].protocol
               /\ xray.file.inbounds[k].security = old.inbounds[k].security
               /\ (ret[1].res = "ok" /\ ret[1].op = "enable_client")
                    => GotClients(xray.file.inbounds[k]) =
                         (IF \E i \in DOMAIN GotClients(old.inbounds[k]) :
                                GotClients(old.inbounds[k])[i].id = ret[1].uuid
                          THEN GotClients(old.inbounds[k])
                          ELSE Append(GotClients(old.inbounds[k]),
                                      XClient(ret[1].uuid, ret[1].email)))
               /\ (ret[1].res = "ok" /\ ret[1].op = "disable_client")
                    => GotClients(xray.file.inbounds[k]) =
                         SelectSeq(GotClients(old.inbounds[k]),
                                   LAMBDA c: c.id # ret[1].uuid)

\* C33: before every overwrite of the config file the previous version is
\* copied to the backup path: after a write by enable_client or
\* disable_client the backup file equals the config file as it was just before
\* that write, and when the copy fails the config file is not overwritten.
C33_BackupBeforeWrite ==
    (ret # <<>> /\ ret[1].op \in {"enable_client", "disable_client"})
    => /\ (\E i \in DOMAIN ret[1].steps : ret[1].steps[i] = "write")
            => /\ ret[1].steps[1] = "backup"
               /\ xray.backup = ret[1].before.file
       /\ (ret[1].err = "save" /\ ret[1].env.cp = "failed")
            => /\ xray = ret[1].before
               /\ ret[1].steps = <<>>

\* A second write: the backup of the first one is replaced by the file the
\* first one wrote
C33_Witness ==
    /\ ret # <<>>
    /\ ret[1].op = "disable_client"
    /\ ret[1].res = "ok"
    /\ ret[1].before.backup.kind = "json"
    /\ ret[1].before.backup # ret[1].before.file
    /\ ret[1].before.file.fmt = "dump"
    /\ xray.backup = ret[1].before.file
    /\ xray.file # ret[1].before.file

\* C39: whenever enable_client(id, label) returns without error, the located
\* inbound of the saved config holds a client entry with that id, also when
\* the inbound had no settings or no clients list.
C39_EnabledClientSaved ==
    (ret # <<>> /\ ret[1].op = "enable_client" /\ ret[1].res = "ok")
    => /\ xray.file.kind = "json"
       /\ find_vless_inbound(xray.file) # 0
       /\ \E i \in DOMAIN GotClients(xray.file.inbounds[find_vless_inbound(xray.file)]) :
             GotClients(xray.file.inbounds[find_vless_inbound(xray.file)])[i].id
                = ret[1].uuid

\* C34: every code generate_promo makes for a non-negative day count and
\* stored with that count passes the validation of a redemption: it matches
\* the format and its embedded day count equals the stored days, so an unused
\* generated code is never rejected as malformed or corrupted.
C34_GeneratedCodeValid ==
    /\ \A p \in promo_codes :
          /\ MatchesFormat(p.code)
          /\ CodeDays(p.code) = p.days
          /\ ~Truthy(p.activated_at) => PromoRejection(p.code) = "no"
    /\ (ret # <<>> /\ ret[1].op = "redeem"
           /\ ret[1].res \in {"bad_format", "corrupted"})
        => \A p \in promo_codes : p.code # ret[1].code

\* A 365-day code with a digit prefix, typed in lower case, has passed the
\* validation
C34_Witness ==
    \E t \in Tasks :
       /\ tasks[t].op = "redeem"
       /\ tasks[t].pc = "r_peer"
       /\ tasks[t].days = 365
       /\ tasks[t].code[1] = "0"
       /\ tasks[t].text # tasks[t].code
       /\ \E p \in promo_codes : p.code = tasks[t].code /\ p.days = 365

\* C35: a redemption by an identity whose peer is disabled is all-or-nothing
\* for the peer: when the re-enable at the daemon fails, the stored expiry and
\* enabled flag are what they were before the redemption.
C35_RedeemAllOrNothing ==
    [][\A t \in Tasks :
          (/\ tasks[t].op = "redeem"
           /\ tasks[t].pc = "r_enable"
           /\ tasks'[t].pc # "r_enable"
           /\ tasks'[t].pc # "r_set")
          => LET r == get_peer_by_telegram_id(peers', tasks[t].id)[1]
             IN /\ r.expires_at = tasks[t].row[1].expires_at
                /\ r.enabled = tasks[t].row[1].enabled]_vars

\* C36: redeeming a code never reduces a peer's access: the expiry of an
\* existing peer is never earlier after the redemption than before, and a peer
\* without expiry still has none after it.
C36_RedeemNeverReduces ==
    [][\A t \in Tasks :
          (/\ tasks[t].op = "redeem"
           /\ tasks[t].pc = "r_update"
           /\ tasks'[t].pc # "r_update")
          => LET old == get_peer_by_telegram_id(peers, tasks[t].id)[1]
                 new == get_peer_by_telegram_id(peers', tasks[t].id)[1]
             IN IF old.expires_at = NULL THEN new.expires_at = NULL
                ELSE new.expires_at = NULL \/ new.expires_at >= old.expires_at]_vars

\* C37: a redemption targets the peer the identity holds: when the relay is
\* the primary protocol and the identity's only peer is a relay peer, no step
\* of its redemption creates a point-to-point row, and a redemption that
\* ends well has written the relay peer's expiry.
C37_RedeemTargetsHeldPeer ==
    [][\A t \in Tasks :
          (/\ tasks[t].op = "redeem"
           /\ get_protocol_policy.primary_protocol = "vless"
           /\ get_vless_peer_by_telegram_id(vless_peers, tasks[t].id) # <<>>
           /\ get_peer_by_telegram_id(peers, tasks[t].id) = <<>>)
          => /\ get_peer_by_telegram_id(peers', tasks[t].id) = <<>>
             /\ (tasks'[t].pc = "idle" /\ ret' # <<>> /\ ret'[1].res = "ok")
                  => "insert" \notin tasks[t].eff]_vars

\* C38: no orphan relay clients: whenever no operation is mid-way, every
\* client id the program added to the config file belongs to a row of the
\* relay peer table; after a relay provisioning that failed at the reload and
\* rolled back its row, the file no longer holds that client id.
C38_NoOrphanClients ==
    Quiescent
    => \A c \in ClientIds(xray) :
          \E i \in DOMAIN vless_peers : vless_peers[i].uuid = c

\* C40: every address the allocator leases is a host address of the prefix:
\* after any number of sequential first-time provisions the last octet of
\* every stored peer address is at most 254.
C40_OctetInRange ==
    \A i \in DOMAIN peers : LastOctet(peers[i].ip) <= 254
====
